---- MODULE Spec2Model ----
(***************************************************************************)
(* Per-file run of the LLM_SPT pipeline (internal/pipeline/pipeline.go):   *)
(* producer -> bounded job channel -> workers (prompt, gate, LLM, decoder, *)
(* bounded retry) -> bounded result channel -> commit gate -> two pipes -> *)
(* two Writer.Write calls (primary artifact and .jsonl sidecar).           *)
(***************************************************************************)
EXTENDS Integers, Sequences, FiniteSets, TLC

\* ---------------------------------------------------------------- bounds
NBatches == 3           \* most batches the batcher produces for the file
MaxConcurrency == 2     \* Settings.Concurrency ranges over 1..MaxConcurrency
MaxRetriesBound == 1    \* Settings.MaxRetries ranges over 0..MaxRetriesBound
MaxSpans == 2           \* spans a decoder returns for one batch: 1..MaxSpans
RetryBatches == 1       \* most batches of a file in the retry and shutdown runs
WindowTicks == 3        \* clock ticks in one 60-second window of the rate gate
MaxCallers == 2         \* goroutines that call the rate gate on the one key
MaxRPM == 2             \* Limits.RPM of the key is 0 (off) or MaxRPM
MaxTPM == 3             \* Limits.TPM of the key is 0 (off) or MaxTPM
MaxRecords == 4         \* most records of the file handed to the batcher
MaxCost == 2            \* largest token estimate of one record
MaxBudget == 5          \* Settings.MaxTokens ranges over -1..MaxBudget
MaxOverhead == 1        \* the prompt's fixed overhead ranges over 0..MaxOverhead
MaxRadius == 1          \* Options.ContextRadius ranges over 0..MaxRadius
MaxIdx == 2             \* Index values of targets and candidates: 0..MaxIdx
MaxCands == 3           \* most candidates handed to a validator
MaxRoots == 2           \* most input roots on the command line

Batches == 0 .. (NBatches - 1)
Workers == 1 .. MaxConcurrency
Pipes == {"primary", "sidecar"}
RateCallers == 1 .. MaxCallers

\* ---------------------------------------------------------------- errors
\* An error value is a record [at, kind]: the stage that produced it and the
\* sentinel / error type it matches.  NoErr is Go's nil.
NoErr == [at |-> "none", kind |-> "nil"]
Err(at, kind) == [at |-> at, kind |-> kind]

AllKinds ==
  {"Canceled", "RateLimited", "NetError", "ResponseInvalid",
   "InvalidInput", "PathError", "Other"}

\* diag.Classify: cancel first, then budget, protocol, invariant, io, network.
Classify(err) ==
  IF err = NoErr THEN "unknown"
  ELSE IF err.kind \in {"Canceled", "DeadlineExceeded"} THEN "cancel"
  ELSE IF err.kind \in {"BudgetExceeded", "RateLimited"} THEN "budget"
  ELSE IF err.kind = "ResponseInvalid" THEN "protocol"
  ELSE IF err.kind \in {"InvariantViolation", "InvalidInput", "SeqInvalid", "PathInvalid"}
    THEN "invariant"
  ELSE IF err.kind = "PathError" THEN "io"
  ELSE IF err.kind = "NetError" THEN "network"
  ELSE "unknown"

shouldRetryInvoke(err) ==
  IF err = NoErr THEN FALSE
  ELSE IF Classify(err) = "cancel" THEN FALSE
  ELSE IF Classify(err) \in {"budget", "network"} THEN TRUE
  ELSE FALSE

\* (a decode policy copied from the invoke policy)
shouldRetryDecodeLikeInvoke(err) ==
  IF err = NoErr THEN FALSE ELSE Classify(err) \in {"protocol", "budget", "network"}

shouldRetryDecode(err) ==
  IF err = NoErr THEN FALSE ELSE Classify(err) = "protocol"

\* ---------------------------------------------------------------- state
VARIABLES
  concurrency,   \* Settings.Concurrency
  maxRetries,    \* Settings.MaxRetries
  gateOn,        \* Settings.Gate != nil
  nBatches,      \* len(batches): batches the batcher made for the file
  errKinds,      \* error kinds the LLM client and the decoder of this run can return
  ctx,           \* "live" | "caller" (caller cancelled) | "first_error" (cancel())
  next,          \* producer: index of the next batch to enqueue
  inCh,          \* job channel contents
  inClosed,      \* close(inCh) has run
  wk,            \* worker state: [pc, b, att, inv, sc, err]
  outCh,         \* result channel contents: [idx, att, err]
  outClosed,     \* close(outCh) has run
  gpc,           \* commit gate position
  expect,        \* next BatchIndex to commit
  buf,           \* ordering buffer: BatchIndex -> attempt whose spans it holds (-1: absent)
  spanPos,       \* span the gate is writing (1-based) in the batch being flushed
  firstErr,      \* firstErr of Run
  wr,            \* the two Writer.Write calls: [st, err]
  pipeClosed,    \* pw / pwPairs closed by the gate
  primaryOut,    \* writes the primary Writer has read from its pipe: <<batch, span>>
  sidecarOut,    \* rows the sidecar Writer has read from its pipe: <<batch, span>>
  retErr,        \* what perFile returned (valid when gpc = "returned")
  doneCount,     \* results the commit gate has received
  lim,           \* rate.Limits of the one key of the gate: [rpm, tpm, maxPerReq]
  req,           \* entry.req, the RPM bucket: [cap, level, age]
  tok,           \* entry.tok, the TPM bucket: [cap, level, age]
  gw,            \* callers of the gate: [pc, ask, rem, res]
  admitLog,      \* what was admitted at each of the last WindowTicks clock ticks
  mkArgs,        \* a file and the budget settings: [recs, maxTokens, overhead, radius]
  run,           \* Run up to the batcher: [pc, budget, called, err, batches, writes]
  vArgs,         \* arguments of a validator call: [tgt, cands]
  vRet,          \* what the validator returned: [pc, err, spans]
  cls,           \* a Classify call: [pc, marks, code]
  cli,           \* a run of the command line: [pc, in, exit, why]
  twin           \* one gate driven with Snapshot calls and one without: [lim, a, b, oa, ob]

rateVars == <<lim, req, tok, gw, admitLog>>
batchVars == <<mkArgs, run>>
validVars == <<vArgs, vRet>>
sideVars == <<cls, cli, twin>>
\* Settings of the per-file run, and the state of the components that a per-file
\* run does not touch.
cfgVars ==
  <<concurrency, maxRetries, gateOn, nBatches, errKinds, rateVars, batchVars, validVars,
    sideVars>>
prodVars == <<next, inCh, inClosed>>
gateVars == <<gpc, expect, buf, spanPos, firstErr, pipeClosed, retErr, doneCount>>
outVars == <<primaryOut, sidecarOut>>
vars == <<cfgVars, ctx, prodVars, wk, outCh, outClosed, gateVars, wr, outVars>>

Cancelled == ctx # "live"

\* cancel(): idempotent; a context the caller already cancelled stays so.
cancel(c) == IF c = "live" THEN "first_error" ELSE c

\* ctx.Err() as seen by stage `at`.
CtxErr(at) == Err(at, "Canceled")

\* A worker: position, batch in hand, attempt (0-based), Invoke calls made for the
\* batch, whether ctx was cancelled when its last pre-sleep returned, lastErr.
IdleWorker == [pc |-> "idle", b |-> -1, att |-> 0, inv |-> 0, sc |-> FALSE, err |-> NoErr]
OffWorker == [pc |-> "off", b |-> -1, att |-> 0, inv |-> 0, sc |-> FALSE, err |-> NoErr]

\* sanity(comp, set): `if s.Concurrency < 1 { s.Concurrency = 1 }` assigns to
\* sanity's own copy of the Settings; what Run's set.Concurrency is afterwards.
AfterSanity(c) == c

\* (channels with room for one more)
ChanCapPlusOne == AfterSanity(concurrency) * 2 + 1

\* inCh := make(chan job, Concurrency*2); outCh likewise.
ChanCap == AfterSanity(concurrency) * 2

\* nWorkers := set.Concurrency; if nWorkers < 1 { nWorkers = 1 }
nWorkers == IF AfterSanity(concurrency) < 1 THEN 1 ELSE AfterSanity(concurrency)

\* attempts := set.MaxRetries + 1
Attempts == maxRetries + 1

\* Spans the decoder returns for batch k (a deterministic decoder: the same for
\* every attempt and every run); batches with one span and with several.
SpanCount(k) == (k % MaxSpans) + 1

EmptyBuf == [k \in Batches |-> -1]

\* A goroutine that is not inside a call to the gate.
IdleCaller == [pc |-> "idle", ask |-> [requests |-> 0, tokens |-> 0], rem |-> 0, res |-> "none"]

\* A goroutine that never calls the gate.
OffCaller == [pc |-> "off", ask |-> [requests |-> 0, tokens |-> 0], rem |-> 0, res |-> "none"]

\* Nothing admitted at a tick.
NoAdmission == [requests |-> 0, tokens |-> 0]

\* No admission in any of the last WindowTicks ticks.
ZeroLog == [i \in 1 .. WindowTicks |-> NoAdmission]

\* A gate with no configured key and no caller.
RateIdle ==
  /\ lim = [rpm |-> 0, tpm |-> 0, maxPerReq |-> 0]
  /\ req = [cap |-> 0, level |-> 0, age |-> 0]
  /\ tok = [cap |-> 0, level |-> 0, age |-> 0]
  /\ gw = [w \in RateCallers |-> IdleCaller]
  /\ admitLog = ZeroLog

\* Run has not been called.
RunIdle ==
  [pc |-> "idle", budget |-> 0, called |-> {}, err |-> NoErr, batches |-> <<>>,
   writes |-> <<>>]

BatchIdle ==
  /\ mkArgs = [recs |-> <<>>, maxTokens |-> 0, overhead |-> 0, radius |-> 0]
  /\ run = RunIdle

\* No validator call has been made.
ValidIdle ==
  /\ vArgs = [tgt |-> [From |-> 0, To |-> 0], cands |-> <<>>]
  /\ vRet = [pc |-> "idle", err |-> NoErr, spans |-> <<>>]

\* No Classify call has been made.
ClassIdle == cls = [pc |-> "idle", marks |-> {}, code |-> "unknown"]

\* The command line given nothing that fails: one input root, valid settings.
CliPlain ==
  [flagErr |-> FALSE, init |-> "none", loadErr |-> FALSE, envErr |-> FALSE,
   inputs |-> <<"a">>, concurrency |-> 1, maxTokens |-> 1, resolvable |-> TRUE,
   preflightErr |-> FALSE, assembleErr |-> FALSE, runErr |-> FALSE]

\* The command has not been run.
CliIdle == cli = [pc |-> "idle", in |-> CliPlain, exit |-> 0, why |-> "none"]

\* An entry of a gate without limits: both buckets off.
OffEntry ==
  [req |-> [cap |-> 0, level |-> 0, last |-> 0], tok |-> [cap |-> 0, level |-> 0, last |-> 0]]

\* No gate is being compared.
TwinIdle ==
  twin = [lim |-> [rpm |-> 0, tpm |-> 0, maxPerReq |-> 0], a |-> OffEntry, b |-> OffEntry,
          oa |-> "none", ob |-> "none"]

SideIdle == ClassIdle /\ CliIdle /\ TwinIdle

InitCommon ==
  /\ ctx = "live"
  /\ next = 0
  /\ inCh = <<>>
  /\ inClosed = FALSE
  /\ wk = [w \in Workers |-> IF w <= nWorkers THEN IdleWorker ELSE OffWorker]
  /\ outCh = <<>>
  /\ outClosed = FALSE
  /\ gpc = "recv"
  /\ expect = 0
  /\ buf = EmptyBuf
  /\ spanPos = 0
  /\ firstErr = NoErr
  /\ wr = [p \in Pipes |-> [st |-> "check", err |-> NoErr]]
  /\ pipeClosed = FALSE
  /\ primaryOut = <<>>
  /\ sidecarOut = <<>>
  /\ retErr = NoErr
  /\ doneCount = 0

\* Dispatch runs of a file of NBatches batches whose LLM client and decoder can
\* fail with a kind that Invoke retries and a kind that Decode retries: a single
\* worker with every retry budget, with and without a gate, and several workers.
Init ==
  /\ \/ /\ concurrency = 1
        /\ maxRetries \in 0 .. MaxRetriesBound
        /\ gateOn \in BOOLEAN
     \/ /\ concurrency \in 2 .. MaxConcurrency
        /\ maxRetries = 0
        /\ gateOn = FALSE
  /\ nBatches = NBatches
  /\ errKinds = {"NetError", "ResponseInvalid"}
  /\ InitCommon
  /\ RateIdle /\ BatchIdle /\ ValidIdle /\ SideIdle

\* Retry runs: one worker, up to RetryBatches batches, collaborators that can fail with
\* an error of every class, every retry budget up to MaxRetriesBound + 1.
RetryInit ==
  /\ concurrency = 1
  /\ maxRetries \in 0 .. (MaxRetriesBound + 1)
  /\ gateOn \in BOOLEAN
  /\ nBatches \in 1 .. RetryBatches
  /\ errKinds = AllKinds
  /\ InitCommon
  /\ RateIdle /\ BatchIdle /\ ValidIdle /\ SideIdle

\* ---------------------------------------------------------------- producer
\* select { case <-ctx.Done(): return; case inCh <- job{b}: }
ProducerSend ==
  /\ ~inClosed
  /\ next < nBatches
  /\ Len(inCh) < ChanCap
  /\ inCh' = Append(inCh, next)
  /\ next' = next + 1
  /\ UNCHANGED <<cfgVars, ctx, inClosed, wk, outCh, outClosed, gateVars, wr, outVars>>

\* the ctx.Done() case, then the deferred close(inCh)
ProducerStop ==
  /\ ~inClosed
  /\ next < nBatches
  /\ Cancelled
  /\ inClosed' = TRUE
  /\ UNCHANGED <<cfgVars, ctx, next, inCh, wk, outCh, outClosed, gateVars, wr, outVars>>

\* the range over batches ends, then the deferred close(inCh)
ProducerDone ==
  /\ ~inClosed
  /\ next = nBatches
  /\ inClosed' = TRUE
  /\ UNCHANGED <<cfgVars, ctx, next, inCh, wk, outCh, outClosed, gateVars, wr, outVars>>

\* The caller cancels the context Run was given (the per-file ctx derives from it).
CallerCancel ==
  /\ ctx = "live"
  /\ gpc # "returned"
  /\ ctx' = "caller"
  /\ UNCHANGED <<cfgVars, prodVars, wk, outCh, outClosed, gateVars, wr, outVars>>

\* ---------------------------------------------------------------- workers
\* First stage of an attempt: Gate.Wait when a gate is configured, else Invoke.
AttemptEntry == IF gateOn THEN "gate" ELSE "invoke"

\* (an off-by-one in the attempt budget)
RetryInvokeOffByOne(att, err) == att + 1 <= Attempts /\ shouldRetryInvoke(err)

\* attempt+1 < attempts && shouldRetryInvoke(err)
RetryInvoke(att, err) == att + 1 < Attempts /\ shouldRetryInvoke(err)

\* attempt+1 < attempts && shouldRetryDecode(err)
RetryDecode(att, err) == att + 1 < Attempts /\ shouldRetryDecode(err)

\* Kinds a collaborator call can fail with: those of this run, and ctx.Err()
\* once the context is cancelled.
FailKinds == errKinds \cup (IF Cancelled THEN {"Canceled"} ELSE {})

\* Where a job goes after its prompt is built: into the attempt loop, or, when
\* attempts <= 0 and the loop body never runs, to the send after the loop with
\* lastErr still nil.
LoopEntry == IF Attempts > 0 THEN AttemptEntry ELSE "send"

\* for j := range inCh (a job is available), then
\* p, err = comp.PromptBuilder.Build(ctx, j.b): a build error is the job's result.
WorkerTake(w) ==
  /\ wk[w].pc = "idle"
  /\ inCh # <<>>
  /\ inCh' = Tail(inCh)
  /\ \/ wk' = [wk EXCEPT ![w] = [IdleWorker EXCEPT !.pc = LoopEntry, !.b = Head(inCh)]]
     \/ wk' = [wk EXCEPT ![w] = [IdleWorker EXCEPT !.pc = "send", !.b = Head(inCh),
                                                   !.err = Err("build", "Other")]]
  /\ UNCHANGED <<cfgVars, ctx, next, inClosed, outCh, outClosed, gateVars, wr, outVars>>

\* The same on an unbuffered inCh (Concurrency = 0): the producer's send and the
\* worker's receive are one step.
ProducerHandoff(w) ==
  /\ ChanCap = 0
  /\ ~inClosed
  /\ next < nBatches
  /\ wk[w].pc = "idle"
  /\ next' = next + 1
  /\ \/ wk' = [wk EXCEPT ![w] = [IdleWorker EXCEPT !.pc = LoopEntry, !.b = next]]
     \/ wk' = [wk EXCEPT ![w] = [IdleWorker EXCEPT !.pc = "send", !.b = next,
                                                   !.err = Err("build", "Other")]]
  /\ UNCHANGED <<cfgVars, ctx, inCh, inClosed, outCh, outClosed, gateVars, wr, outVars>>

\* for j := range inCh  (channel closed and drained), then the deferred wg.Done()
WorkerExit(w) ==
  /\ wk[w].pc = "idle"
  /\ inCh = <<>>
  /\ inClosed
  /\ wk' = [wk EXCEPT ![w].pc = "exit"]
  /\ UNCHANGED <<cfgVars, ctx, prodVars, outCh, outClosed, gateVars, wr, outVars>>

\* set.Gate.Wait(ctx, ask): InvalidInput before looking at ctx, ctx.Err() once
\* cancelled, nil otherwise; a gate error is never retried (break).
WorkerGateWait(w) ==
  /\ wk[w].pc = "gate"
  /\ \/ /\ ~Cancelled
        /\ wk' = [wk EXCEPT ![w].pc = "invoke"]
     \/ /\ Cancelled
        /\ wk' = [wk EXCEPT ![w].pc = "send", ![w].err = CtxErr("gate")]
     \/ wk' = [wk EXCEPT ![w].pc = "send", ![w].err = Err("gate", "InvalidInput")]
  /\ UNCHANGED <<cfgVars, ctx, prodVars, outCh, outClosed, gateVars, wr, outVars>>

\* approxPromptTokens(p, bpt): the prompt's bytes over bytes-per-token, rounded up
approxPromptTokens(total, bpt) ==
  LET q == IF bpt <= 0 THEN 4 ELSE bpt
  IN IF total <= 0 THEN 0 ELSE (total + q - 1) \div q

\* Bytes of the prompt PromptBuilder.Build returns for batch b.
PromptBytes(b) == 4 * b + 5

\* tokens := 0; if set.MaxTokens > 0 { tokens = approxPromptTokens(p, bpt) }
\* (Settings.BytesPerToken left at 0), and the ask the worker hands to Gate.Wait
GateAsk(maxTokens, b) ==
  [requests |-> 1,
   tokens |-> IF maxTokens > 0 THEN approxPromptTokens(PromptBytes(b), 0) ELSE 0]

\* What a gate remembers of a call: the ask and the answer.
GateAnswer(a, r) == [pc |-> "done", ask |-> a, rem |-> 0, res |-> r]

\* WorkerGateWait in a run whose gate records, per worker, the latest ask it was
\* given and what it answered.
WorkerGateAsk(w) ==
  /\ wk[w].pc = "gate"
  /\ LET a == GateAsk(mkArgs.maxTokens, wk[w].b) IN
     \/ /\ ~Cancelled
        /\ wk' = [wk EXCEPT ![w].pc = "invoke"]
        /\ gw' = [gw EXCEPT ![w] = GateAnswer(a, "nil")]
     \/ /\ Cancelled
        /\ wk' = [wk EXCEPT ![w].pc = "send", ![w].err = CtxErr("gate")]
        /\ gw' = [gw EXCEPT ![w] = GateAnswer(a, "Canceled")]
     \/ /\ wk' = [wk EXCEPT ![w].pc = "send", ![w].err = Err("gate", "InvalidInput")]
        /\ gw' = [gw EXCEPT ![w] = GateAnswer(a, "InvalidInput")]
  /\ UNCHANGED <<concurrency, maxRetries, gateOn, nBatches, errKinds, lim, req, tok, admitLog,
                 batchVars, validVars, sideVars, ctx, prodVars, outCh, outClosed, gateVars,
                 wr, outVars>>

\* After a failed Invoke: lastErr = err, then retry (pre-sleep) or break.
AfterInvokeErr(r, e) ==
  [r EXCEPT !.err = e, !.pc = IF RetryInvoke(r.att, e) THEN "sleep" ELSE "send"]

\* (a failed Decode that is not retried drops the job: no result is sent)
AfterDecodeErrDrop(r, e) ==
  IF RetryDecode(r.att, e) THEN [r EXCEPT !.err = e, !.pc = "sleep"] ELSE IdleWorker

\* After a failed Decode: lastErr = err, then retry (pre-sleep) or break.
AfterDecodeErr(r, e) ==
  [r EXCEPT !.err = e, !.pc = IF RetryDecode(r.att, e) THEN "sleep" ELSE "send"]

\* One attempt: raw, err := comp.LLM.Invoke(ctx, j.b, p), and when that succeeded
\* spans, err = comp.Decoder.Decode(ctx, tgt, raw) (or DecodeWithMeta).
WorkerAttempt(w) ==
  /\ wk[w].pc = "invoke"
  /\ LET r == [wk[w] EXCEPT !.inv = @ + 1] IN
     \/ wk' = [wk EXCEPT ![w] = [r EXCEPT !.pc = "send", !.err = NoErr]]
     \/ \E k \in FailKinds : wk' = [wk EXCEPT ![w] = AfterInvokeErr(r, Err("invoke", k))]
     \/ \E k \in FailKinds : wk' = [wk EXCEPT ![w] = AfterDecodeErr(r, Err("decode", k))]
  /\ UNCHANGED <<cfgVars, ctx, prodVars, outCh, outClosed, gateVars, wr, outVars>>

\* (a retry that goes straight to the LLM, past the gate)
WorkerSleepPastGate(w) ==
  /\ wk[w].pc = "sleep"
  /\ wk' = [wk EXCEPT ![w].pc = "invoke", ![w].att = @ + 1, ![w].sc = Cancelled]
  /\ UNCHANGED <<cfgVars, ctx, prodVars, outCh, outClosed, gateVars, wr, outVars>>

\* _ = sleepWithCtx(ctx, 200ms); continue   (the result of the sleep is dropped)
WorkerSleep(w) ==
  /\ wk[w].pc = "sleep"
  /\ wk' = [wk EXCEPT ![w].pc = AttemptEntry, ![w].att = @ + 1, ![w].sc = Cancelled]
  /\ UNCHANGED <<cfgVars, ctx, prodVars, outCh, outClosed, gateVars, wr, outVars>>

\* (a worker that also writes its first span into the primary pipe itself)
WorkerSendAndWrite(w) ==
  /\ wk[w].pc = "send"
  /\ Len(outCh) < ChanCap
  /\ outCh' = Append(outCh, [idx |-> wk[w].b, att |-> wk[w].att, err |-> wk[w].err])
  /\ wk' = [wk EXCEPT ![w] = IdleWorker]
  /\ primaryOut' = IF wk[w].err = NoErr THEN Append(primaryOut, <<wk[w].b, 1>>) ELSE primaryOut
  /\ UNCHANGED <<cfgVars, ctx, prodVars, outClosed, gateVars, wr, sidecarOut>>

\* outCh <- res{idx, spans, err}: the spans are those of the attempt that succeeded.
WorkerSend(w) ==
  /\ wk[w].pc = "send"
  /\ Len(outCh) < ChanCap
  /\ outCh' = Append(outCh, [idx |-> wk[w].b, att |-> wk[w].att, err |-> wk[w].err])
  /\ wk' = [wk EXCEPT ![w] = IdleWorker]
  /\ UNCHANGED <<cfgVars, ctx, prodVars, outClosed, gateVars, wr, outVars>>

\* go func() { wg.Wait(); close(outCh) }()
CloseOut ==
  /\ ~outClosed
  /\ \A w \in Workers : wk[w].pc \in {"exit", "off"}
  /\ outClosed' = TRUE
  /\ UNCHANGED <<cfgVars, ctx, prodVars, wk, outCh, gateVars, wr, outVars>>


\* ---------------------------------------------------------------- commit gate
\* if r.err != nil && firstErr == nil { firstErr = r.err; cancel() }
RecordFirst(fe, e) == IF e # NoErr /\ fe = NoErr THEN e ELSE fe

\* spans, ok := buf[expect]
FlushReady(bf, e) == e \in Batches /\ bf[e] # -1

\* Entry of the flush loop: the sidecar step of buf[expect], or back to the receive.
FlushEntry(bf, e) == IF FlushReady(bf, e) THEN "encode" ELSE "recv"

\* for r := range outCh { ... }: one result received and handled up to the flush loop
GateRecv ==
  /\ gpc = "recv"
  /\ outCh # <<>>
  /\ LET r == Head(outCh)
         fe == RecordFirst(firstErr, r.err)
         bf == IF r.err = NoErr THEN [buf EXCEPT ![r.idx] = r.att] ELSE buf
     IN /\ outCh' = Tail(outCh)
        /\ firstErr' = fe
        /\ ctx' = IF fe # firstErr THEN cancel(ctx) ELSE ctx
        /\ buf' = bf
        /\ gpc' = IF r.err = NoErr THEN FlushEntry(bf, expect) ELSE "recv"
        /\ spanPos' = 1
        /\ doneCount' = doneCount + 1
  /\ UNCHANGED <<cfgVars, prodVars, wk, outClosed, expect, pipeClosed, retErr, wr, outVars>>

\* The same receive on an unbuffered outCh (Concurrency = 0): the worker's send
\* and the gate's receive are one step, and the worker goes on to its next job.
WorkerHandoff(w) ==
  /\ ChanCap = 0
  /\ wk[w].pc = "send"
  /\ gpc = "recv"
  /\ ~outClosed
  /\ LET r == [idx |-> wk[w].b, att |-> wk[w].att, err |-> wk[w].err]
         fe == RecordFirst(firstErr, r.err)
         bf == IF r.err = NoErr THEN [buf EXCEPT ![r.idx] = r.att] ELSE buf
     IN /\ wk' = [wk EXCEPT ![w] = IdleWorker]
        /\ firstErr' = fe
        /\ ctx' = IF fe # firstErr THEN cancel(ctx) ELSE ctx
        /\ buf' = bf
        /\ gpc' = IF r.err = NoErr THEN FlushEntry(bf, expect) ELSE "recv"
        /\ spanPos' = 1
        /\ doneCount' = doneCount + 1
  /\ UNCHANGED <<cfgVars, prodVars, outCh, outClosed, expect, pipeClosed, retErr, wr, outVars>>

\* enc.Encode(&row): one Write on pwPairs per span; an io.Pipe Write completes
\* when the reader end, inside Read, has taken the bytes.
GateEncode ==
  /\ gpc = "encode"
  /\ wr["sidecar"].st = "read"
  /\ sidecarOut' = Append(sidecarOut, <<expect, spanPos>>)
  /\ wr' = [wr EXCEPT !["sidecar"].st = "check"]
  /\ IF spanPos < SpanCount(expect)
       THEN /\ spanPos' = spanPos + 1
            /\ gpc' = gpc
       ELSE /\ spanPos' = 1
            /\ gpc' = "assemble"
  /\ UNCHANGED <<cfgVars, ctx, prodVars, wk, outCh, outClosed, expect, buf, firstErr,
                 pipeClosed, retErr, doneCount, primaryOut>>

\* linear.Assemble: ctx.Err() when ctx is done, ErrSeqInvalid for spans that are
\* not strictly ascending, else a reader over the spans' outputs.
AssembleErrs == IF Cancelled THEN {CtxErr("assemble")} ELSE {NoErr, Err("assemble", "SeqInvalid")}

\* rd, aerr := comp.Assembler.Assemble(ctx, fileID, spans);
\* if aerr != nil { firstErr = aerr; cancel(); break }   (firstErr is overwritten)
GateAssemble ==
  /\ gpc = "assemble"
  /\ \E aerr \in AssembleErrs :
       IF aerr # NoErr
         THEN /\ firstErr' = aerr
              /\ ctx' = cancel(ctx)
              /\ gpc' = "recv"
         ELSE /\ gpc' = "copy"
              /\ UNCHANGED <<firstErr, ctx>>
  /\ UNCHANGED <<cfgVars, prodVars, wk, outCh, outClosed, expect, buf, spanPos, pipeClosed,
                 retErr, doneCount, wr, outVars>>

\* (expect advanced past a batch)
SkipExpect(e) == e + 2

\* expect++
NextExpect(e) == e + 1

\* (a single flush per result: an if where the loop is)
FlushOnce(bf, e) == "recv"

\* for { spans, ok := buf[expect]; if !ok { break } ... }: the loop goes round
\* after a commit and flushes every consecutive buffered batch.
FlushNext(bf, e) == FlushEntry(bf, e)

\* io.Copy(pw, rd): one Write on pw per span output; after the last one
\* delete(buf, expect); expect++ and the flush loop goes round.
GateCopy ==
  /\ gpc = "copy"
  /\ wr["primary"].st = "read"
  /\ primaryOut' = Append(primaryOut, <<expect, spanPos>>)
  /\ wr' = [wr EXCEPT !["primary"].st = "check"]
  /\ IF spanPos < SpanCount(expect)
       THEN /\ spanPos' = spanPos + 1
            /\ UNCHANGED <<gpc, buf, expect>>
       ELSE /\ spanPos' = 1
            /\ buf' = [buf EXCEPT ![expect] = -1]
            /\ expect' = NextExpect(expect)
            /\ gpc' = FlushNext(buf', expect')
  /\ UNCHANGED <<cfgVars, ctx, prodVars, wk, outCh, outClosed, firstErr, pipeClosed, retErr,
                 doneCount,
                 sidecarOut>>

\* range outCh ends; pw.Close / pw.CloseWithError(firstErr), the same for pwPairs
GateClose ==
  /\ gpc = "recv"
  /\ outCh = <<>>
  /\ outClosed
  /\ pipeClosed' = TRUE
  /\ gpc' = "await"
  /\ UNCHANGED <<cfgVars, ctx, prodVars, wk, outCh, outClosed, expect, buf, spanPos, firstErr,
                 retErr, doneCount, wr, outVars>>

\* first internal error > primary writer error > sidecar writer error
ReturnValue(fe, werr, werrPairs) ==
  IF fe # NoErr THEN fe ELSE IF werr # NoErr THEN werr ELSE werrPairs

\* werr := <-wdone; werrPairs := <-wdonePairs; return
GateReturn ==
  /\ gpc = "await"
  /\ wr["primary"].st = "done"
  /\ wr["sidecar"].st = "done"
  /\ retErr' = ReturnValue(firstErr, wr["primary"].err, wr["sidecar"].err)
  /\ gpc' = "returned"
  /\ UNCHANGED <<cfgVars, ctx, prodVars, wk, outCh, outClosed, expect, buf, spanPos, firstErr,
                 pipeClosed, doneCount, wr, outVars>>

\* ---------------------------------------------------------------- writers
\* filesystem.Write / ctxReader.Read: ctx is looked at before every Read;
\* a cancelled ctx ends the call with ctx.Err(), the pipe's reader end is left open.
WriterCheck(p) ==
  /\ wr[p].st = "check"
  /\ wr' = [wr EXCEPT ![p] = IF Cancelled THEN [st |-> "done", err |-> CtxErr("writer")]
                                          ELSE [st |-> "read", err |-> NoErr]]
  /\ UNCHANGED <<cfgVars, ctx, prodVars, wk, outCh, outClosed, gateVars, outVars>>

\* (a pipe that is always closed with a plain Close)
WriterEndClean(p) ==
  /\ wr[p].st = "read"
  /\ pipeClosed
  /\ wr' = [wr EXCEPT ![p] = [st |-> "done", err |-> NoErr]]
  /\ UNCHANGED <<cfgVars, ctx, prodVars, wk, outCh, outClosed, gateVars, outVars>>

\* Read on a closed pipe: io.EOF after Close (the call ends with nil), the cause
\* after CloseWithError(firstErr) (the call ends with it).
WriterEnd(p) ==
  /\ wr[p].st = "read"
  /\ pipeClosed
  /\ wr' = [wr EXCEPT ![p] = [st |-> "done", err |-> firstErr]]
  /\ UNCHANGED <<cfgVars, ctx, prodVars, wk, outCh, outClosed, gateVars, outVars>>

\* ---------------------------------------------------------------- specification
Next ==
  \/ CallerCancel
  \/ ProducerSend
  \/ ProducerStop
  \/ ProducerDone
  \/ \E w \in Workers : WorkerTake(w)
  \/ \E w \in Workers : WorkerExit(w)
  \/ \E w \in Workers : WorkerGateWait(w)
  \/ \E w \in Workers : WorkerAttempt(w)
  \/ \E w \in Workers : WorkerSleep(w)
  \/ \E w \in Workers : WorkerSend(w)
  \/ CloseOut
  \/ GateRecv
  \/ GateEncode
  \/ GateAssemble
  \/ GateCopy
  \/ GateClose
  \/ GateReturn
  \/ \E p \in Pipes : WriterCheck(p)
  \/ \E p \in Pipes : WriterEnd(p)

Spec == Init /\ [][Next]_vars

RetrySpec == RetryInit /\ [][Next]_vars

\* Shutdown runs: one worker, up to RetryBatches batches.  Every goroutine that can take
\* a step eventually takes it (the Go scheduler), and every collaborator call
\* eventually returns (the steps that end a Gate.Wait, an Invoke, a Decode, an
\* Assemble or a Writer's Read are the returns of those calls).
LiveInit ==
  /\ concurrency = 1
  /\ maxRetries \in 0 .. MaxRetriesBound
  /\ gateOn \in BOOLEAN
  /\ nBatches \in 1 .. RetryBatches
  /\ errKinds = {"NetError", "ResponseInvalid"}
  /\ InitCommon
  /\ RateIdle /\ BatchIdle /\ ValidIdle /\ SideIdle

ProducerStep == ProducerSend \/ ProducerStop \/ ProducerDone

WorkerStep(w) ==
  \/ WorkerTake(w)
  \/ WorkerExit(w)
  \/ WorkerGateWait(w)
  \/ WorkerAttempt(w)
  \/ WorkerSleep(w)
  \/ WorkerSend(w)

GateStep == GateRecv \/ GateEncode \/ GateAssemble \/ GateCopy \/ GateClose \/ GateReturn

WriterStep(p) == WriterCheck(p) \/ WriterEnd(p)

Fairness ==
  /\ WF_vars(ProducerStep)
  /\ \A w \in Workers : WF_vars(WorkerStep(w))
  /\ WF_vars(CloseOut)
  /\ WF_vars(GateStep)
  /\ \A p \in Pipes : WF_vars(WriterStep(p))

LiveSpec == LiveInit /\ [][Next]_vars /\ Fairness


\* ---------------------------------------------------------------- commit order
\* The streams of a run that commits batches 0..n-1 in order: for each batch, in
\* BatchIndex order, one write per span, in span order.
RECURSIVE RefUpTo(_)
RefUpTo(n) ==
  IF n = 0 THEN <<>>
  ELSE RefUpTo(n - 1) \o [s \in 1 .. SpanCount(n - 1) |-> <<n - 1, s>>]

IsPrefix(a, b) == Len(a) <= Len(b) /\ \A i \in 1 .. Len(a) : a[i] = b[i]

\* C1: for every concurrency and every arrival order of the results, the writes
\* into the primary pipe are those of batches 0, 1, 2, ... in BatchIndex order,
\* with no gap and no batch written twice: the primary stream is always a prefix
\* of the in-order stream, and the batches before expect are exactly the ones
\* written in full.
C1_CommitOrder ==
  /\ IsPrefix(primaryOut, RefUpTo(nBatches))
  /\ expect <= nBatches
  /\ IsPrefix(RefUpTo(expect), primaryOut)
  /\ gpc # "copy" => primaryOut = RefUpTo(expect)

\* Batch 2 arrived before batch 1 and waits in the buffer while the gate, having
\* written batch 0, copies batch 1.
C1_Witness ==
  /\ gpc = "copy"
  /\ expect = 1
  /\ FlushReady(buf, 2)
  /\ primaryOut = RefUpTo(1)

\* Batches that have at least one write in a stream, in order of first write.
RECURSIVE BatchSeq(_)
BatchSeq(st) ==
  IF st = <<>> THEN <<>>
  ELSE LET rest == BatchSeq(SubSeq(st, 1, Len(st) - 1))
           b == st[Len(st)][1]
       IN IF \E i \in 1 .. Len(rest) : rest[i] = b THEN rest ELSE Append(rest, b)

\* The rows of the batches bs, each batch once, one row per span in span order.
RECURSIVE RowsOf(_)
RowsOf(bs) ==
  IF bs = <<>> THEN <<>>
  ELSE [s \in 1 .. SpanCount(Head(bs)) |-> <<Head(bs), s>>] \o RowsOf(Tail(bs))

\* C2 (as claimed): when the run has ended, with or without an error, the batches
\* in the sidecar are the batches in the primary stream, in the same order, and
\* the sidecar holds for each of them exactly one row per span, in span order, once.
C2_SidecarPaired ==
  gpc = "returned" =>
    /\ BatchSeq(sidecarOut) = BatchSeq(primaryOut)
    /\ sidecarOut = RowsOf(BatchSeq(sidecarOut))

\* C3: with collaborators that never fail and a context nobody cancels (the run
\* returns nil), the primary and the sidecar stream are, for every concurrency and
\* every interleaving, the streams of the in-order run: all batches, in BatchIndex
\* order, each once.
C3_Deterministic ==
  (gpc = "returned" /\ retErr = NoErr /\ ctx = "live") =>
    /\ primaryOut = RefUpTo(nBatches)
    /\ sidecarOut = RefUpTo(nBatches)

\* A run of two workers has returned nil with the full streams.
C3_Witness ==
  /\ gpc = "returned"
  /\ retErr = NoErr
  /\ ctx = "live"
  /\ concurrency = 2
  /\ sidecarOut = RefUpTo(NBatches)
  /\ primaryOut = sidecarOut

\* C4 (as claimed): once firstErr is set, no step writes a sidecar row or a
\* primary byte.
C4_NoCommitAfterError ==
  [][firstErr # NoErr => (primaryOut' = primaryOut /\ sidecarOut' = sidecarOut)]_vars

\* C5 (as claimed): the first error recorded is never replaced by a later one, and
\* a failing run returns it.
C5_FirstErrorKept ==
  [][/\ firstErr # NoErr => firstErr' = firstErr
     /\ (gpc # "returned" /\ gpc' = "returned" /\ firstErr # NoErr) => retErr' = firstErr]_vars

\* Successful results buffered ahead of the next expected batch.
OutOfOrder == Cardinality({k \in Batches : buf[k] # -1 /\ k > expect})

\* C7 (as claimed, on the runs in which nothing has failed and nobody has
\* cancelled): after the gate has processed a result, the out-of-order buffer
\* holds at most concurrency - 1 entries.
C7_BufferBound ==
  (gpc = "recv" /\ firstErr = NoErr /\ ctx = "live") => OutOfOrder <= concurrency - 1


\* C6 (as claimed): once the context is cancelled, by the first error or by the
\* caller, the per-file run eventually returns.
C6_ReturnsAfterCancel == Cancelled ~> (gpc = "returned")

\* ---------------------------------------------------------------- retry loop
\* The error is one its stage retries.
Retryable(e) ==
  \/ e.at = "invoke" /\ shouldRetryInvoke(e)
  \/ e.at = "decode" /\ shouldRetryDecode(e)

\* C8: a worker invokes the LLM at most maxRetries + 1 times for a batch; a batch
\* reported successful was invoked exactly k times, where its first k - 1 attempts
\* failed with retryable errors and the k-th succeeded; a batch reported failed
\* with a retryable error was invoked exactly maxRetries + 1 times.
C8_AttemptBudget ==
  \A w \in Workers :
    /\ wk[w].inv <= maxRetries + 1
    /\ wk[w].att <= maxRetries
    /\ wk[w].pc = "sleep" => (wk[w].inv = wk[w].att + 1 /\ Retryable(wk[w].err))
    /\ (wk[w].pc = "send" /\ wk[w].err = NoErr) => wk[w].inv = wk[w].att + 1
    /\ (wk[w].pc = "send" /\ Retryable(wk[w].err)) => wk[w].inv = maxRetries + 1

\* With maxRetries = 2, a batch is reported successful after three invocations,
\* its first two attempts having failed with retryable errors.
C8_Witness ==
  \E w \in Workers :
    /\ maxRetries = 2
    /\ wk[w].pc = "send"
    /\ wk[w].err = NoErr
    /\ wk[w].att = 2
    /\ wk[w].inv = 3

\* The retry table of the claim: budget and network from either stage, protocol
\* from decoding only.
ClaimedRetryable(e) ==
  \/ Classify(e) \in {"budget", "network"}
  \/ e.at = "decode" /\ Classify(e) = "protocol"

\* The retry table of the code: budget and network from Invoke, protocol from Decode.
CodeRetryable(e) ==
  \/ e.at = "invoke" /\ Classify(e) \in {"budget", "network"}
  \/ e.at = "decode" /\ Classify(e) = "protocol"

\* A worker holds the error of a failed attempt: it is about to pre-sleep and
\* retry, or about to report the failure.
Retried(w) == wk[w].pc = "sleep"
GaveUp(w) == wk[w].pc = "send" /\ wk[w].err.at \in {"invoke", "decode"}

\* C9 (as claimed): a failed attempt is retried exactly when attempts remain and
\* its class is retryable by one table for both stages (budget and network from
\* either stage, protocol from decoding).
C9_RetryTableClaimed ==
  \A w \in Workers :
    /\ Retried(w) => (wk[w].att + 1 < Attempts /\ ClaimedRetryable(wk[w].err))
    /\ GaveUp(w) => ~(wk[w].att + 1 < Attempts /\ ClaimedRetryable(wk[w].err))

\* C9 (amended): a failed attempt is retried exactly when attempts remain and it is
\* a budget or network error of the LLM invocation or a protocol error of the
\* decoding; every other class, and budget and network errors of the decoding,
\* are never retried.
C9_RetryTable ==
  \A w \in Workers :
    /\ Retried(w) => (wk[w].att + 1 < Attempts /\ CodeRetryable(wk[w].err))
    /\ GaveUp(w) => ~(wk[w].att + 1 < Attempts /\ CodeRetryable(wk[w].err))

\* A network error of the decoding is reported, not retried, with an attempt left;
\* elsewhere a protocol error of the decoding is being retried.
C9_Witness ==
  \E w \in Workers :
    /\ GaveUp(w)
    /\ wk[w].err = Err("decode", "NetError")
    /\ wk[w].att + 1 < Attempts

\* C10 (as claimed): a worker whose retry pre-sleep returned with ctx cancelled
\* makes no LLM invocation in the attempt that follows, with or without a gate.
C10_NoRetryAfterCancel ==
  \A w \in Workers : wk[w].sc => wk[w].inv <= wk[w].att

\* ---------------------------------------------------------------- components at rest
\* The variables of a per-file run, for the steps of the other components.
runVars ==
  <<concurrency, maxRetries, gateOn, nBatches, errKinds, prodVars, wk, outCh, outClosed,
    gateVars, wr, outVars>>

\* No per-file run is in progress.
PipeIdle ==
  /\ concurrency = 1
  /\ maxRetries = 0
  /\ gateOn = FALSE
  /\ nBatches = 0
  /\ errKinds = {}
  /\ InitCommon

Min(a, b) == IF a <= b THEN a ELSE b
Max(a, b) == IF a >= b THEN a ELSE b

\* ---------------------------------------------------------------- rate gate
\* internal/rate: one entry (one key) with an RPM and a TPM token bucket.  Time is
\* counted in clock ticks, WindowTicks to the minute.  A bucket's level is kept
\* multiplied by WindowTicks, so that one tick refills exactly `cap` units and the
\* arithmetic is exact; bucket.last is kept as the bucket's age, now - last, in ticks
\* (an age of WindowTicks or more refills the bucket to its capacity, so it stops there).

\* newBucket(capacity, now)
newBucket(capacity) ==
  IF capacity <= 0 THEN [cap |-> 0, level |-> 0, age |-> 0]
  ELSE [cap |-> capacity, level |-> capacity * WindowTicks, age |-> 0]

enabled(b) == b.cap > 0

\* bucket.refill(now): level += dt * rate, clamped to cap; last = now
refill(b) ==
  IF ~enabled(b) THEN b
  ELSE IF b.age <= 0 THEN b
  ELSE [b EXCEPT !.level = Min(b.level + b.age * b.cap, b.cap * WindowTicks), !.age = 0]

\* (a canTake that is content with a full bucket)
canTakeFull(b, n) ==
  IF ~enabled(b) THEN TRUE
  ELSE IF n <= 0 THEN TRUE
  ELSE b.level >= Min(n, b.cap) * WindowTicks

\* bucket.canTake(n)
canTake(b, n) ==
  IF ~enabled(b) THEN TRUE
  ELSE IF n <= 0 THEN TRUE
  ELSE b.level >= n * WindowTicks

\* (a take that deducts nothing)
takeNothing(b, n) == b

\* bucket.take(n)
take(b, n) ==
  IF ~enabled(b) \/ n <= 0 THEN b
  ELSE [b EXCEPT !.level = Max(b.level - n * WindowTicks, 0)]

\* bucket.waitSecFor(n), in whole ticks (rounded down): deficit / rate
waitSecFor(b, n) ==
  IF ~enabled(b) \/ n <= 0 THEN 0
  ELSE IF n * WindowTicks - b.level <= 0 THEN 0
  ELSE (n * WindowTicks - b.level) \div b.cap

\* d = max(wr, wt) + minSleep: the sleep ends at the first tick after the wait
SleepTicks(wr_, wt_) == Max(wr_, wt_) + 1

\* The asks callers make: Requests 0 (invalid) or 1 (what the pipeline asks), Tokens
\* -1 (invalid), 1, the per-request cap and one above it (the TPM capacity); and
\* two asks larger than a capacity: one more request than RPM, one more token
\* than TPM.
Asks ==
  [requests : 0 .. 1, tokens : {-1, 1, MaxTPM - 1, MaxTPM}]
    \cup {[requests |-> MaxRPM + 1, tokens |-> 1], [requests |-> 1, tokens |-> MaxTPM + 1]}

\* a.Requests <= 0 || a.Tokens < 0
BadAsk(a) == a.requests <= 0 \/ a.tokens < 0

\* (a cap that also rejects an ask equal to it)
OverCapInclusive(l, a) == l.maxPerReq > 0 /\ a.tokens >= l.maxPerReq

\* e.lim.MaxTokensPerReq > 0 && a.Tokens > e.lim.MaxTokensPerReq
OverCap(l, a) == l.maxPerReq > 0 /\ a.tokens > l.maxPerReq

\* (a Wait that never looks at its context)
CtxNeverDone(c) == FALSE

\* select { case <-ctx.Done(): ...; default: }
CtxDone(c) == c # "live"

Returned(w, a, r) == [pc |-> "done", ask |-> a, rem |-> 0, res |-> r]

\* The key's limits: each dimension off or on, the per-request cap off or one
\* below the TPM capacity; both buckets start full.  One goroutine calls the gate
\* again and again.
RateInit ==
  /\ lim \in [rpm : {0, MaxRPM}, tpm : {0, MaxTPM}, maxPerReq : {0, MaxTPM - 1}]
  /\ req = newBucket(lim.rpm)
  /\ tok = newBucket(lim.tpm)
  /\ gw = [w \in RateCallers |-> IF w = 1 THEN IdleCaller ELSE OffCaller]
  /\ admitLog = ZeroLog
  /\ PipeIdle /\ BatchIdle /\ ValidIdle /\ SideIdle

\* gate.Wait, up to the loop: the two validations
WaitCall(w) ==
  /\ gw[w].pc \in {"idle", "done"}
  /\ \E a \in Asks :
       gw' = [gw EXCEPT ![w] =
                IF BadAsk(a) \/ OverCap(lim, a) THEN Returned(w, a, "InvalidInput")
                ELSE [pc |-> "check", ask |-> a, rem |-> 0, res |-> "none"]]
  /\ UNCHANGED <<runVars, ctx, lim, req, tok, admitLog, batchVars, validVars, sideVars>>

\* top of the loop: the non-blocking select on ctx.Done()
WaitCheck(w) ==
  /\ gw[w].pc = "check"
  /\ gw' = [gw EXCEPT ![w] =
              IF CtxDone(ctx) THEN Returned(w, gw[w].ask, "Canceled")
              ELSE [@ EXCEPT !.pc = "eval"]]
  /\ UNCHANGED <<runVars, ctx, lim, req, tok, admitLog, batchVars, validVars, sideVars>>

\* What an admission, by Wait or by Try, adds to the record of this tick's
\* admissions, in the dimensions the key limits.
Admit(log, a) ==
  [log EXCEPT ![1].requests = @ + (IF lim.rpm > 0 THEN a.requests ELSE 0),
              ![1].tokens = @ + (IF lim.tpm > 0 THEN a.tokens ELSE 0)]

\* now := g.clk(); the section under e.mu: refill, canTake, take or waitSecFor
WaitEval(w) ==
  /\ gw[w].pc = "eval"
  /\ LET a == gw[w].ask
         r == refill(req)
         t == refill(tok)
     IN IF canTake(r, a.requests) /\ canTake(t, a.tokens)
        THEN /\ req' = take(r, a.requests)
             /\ tok' = take(t, a.tokens)
             /\ gw' = [gw EXCEPT ![w] = Returned(w, a, "nil")]
             /\ admitLog' = Admit(admitLog, a)
        ELSE /\ req' = r
             /\ tok' = t
             /\ gw' = [gw EXCEPT ![w] =
                         [@ EXCEPT !.pc = "sleep",
                                   !.rem = SleepTicks(waitSecFor(r, a.requests),
                                                      waitSecFor(t, a.tokens))]]
             /\ admitLog' = admitLog
  /\ UNCHANGED <<runVars, ctx, lim, batchVars, validVars, sideVars>>

\* sleepCtx: the timers run out (nil), or ctx.Done() is taken (ctx.Err())
WaitWake(w) ==
  /\ gw[w].pc = "sleep"
  /\ \/ /\ gw[w].rem = 0
        /\ gw' = [gw EXCEPT ![w] = [@ EXCEPT !.pc = "check"]]
     \/ /\ CtxDone(ctx)
        /\ gw' = [gw EXCEPT ![w] = Returned(w, gw[w].ask, "Canceled")]
  /\ UNCHANGED <<runVars, ctx, lim, req, tok, admitLog, batchVars, validVars, sideVars>>

\* (a Try that takes from the request bucket before it looks at the token bucket)
TryCallRequestsFirst(w) ==
  /\ gw[w].pc \in {"idle", "done"}
  /\ \E a \in Asks :
       LET r == refill(req)
           t == refill(tok)
       IN IF BadAsk(a) \/ OverCap(lim, a)
          THEN /\ gw' = [gw EXCEPT ![w] = Returned(w, a, "false")]
               /\ UNCHANGED <<req, tok, admitLog>>
          ELSE IF ~canTake(r, a.requests)
          THEN /\ req' = r
               /\ tok' = t
               /\ gw' = [gw EXCEPT ![w] = Returned(w, a, "false")]
               /\ admitLog' = admitLog
          ELSE IF ~canTake(t, a.tokens)
          THEN /\ req' = take(r, a.requests)
               /\ tok' = t
               /\ gw' = [gw EXCEPT ![w] = Returned(w, a, "false")]
               /\ admitLog' = admitLog
          ELSE /\ req' = take(r, a.requests)
               /\ tok' = take(t, a.tokens)
               /\ gw' = [gw EXCEPT ![w] = Returned(w, a, "true")]
               /\ admitLog' = Admit(admitLog, a)
  /\ UNCHANGED <<runVars, ctx, lim, batchVars, validVars, sideVars>>

\* gate.Try: validations, then refill and take under e.mu, never blocking
TryCall(w) ==
  /\ gw[w].pc \in {"idle", "done"}
  /\ \E a \in Asks :
       LET r == refill(req)
           t == refill(tok)
       IN IF BadAsk(a) \/ OverCap(lim, a)
          THEN /\ gw' = [gw EXCEPT ![w] = Returned(w, a, "false")]
               /\ UNCHANGED <<req, tok, admitLog>>
          ELSE IF canTake(r, a.requests) /\ canTake(t, a.tokens)
          THEN /\ req' = take(r, a.requests)
               /\ tok' = take(t, a.tokens)
               /\ gw' = [gw EXCEPT ![w] = Returned(w, a, "true")]
               /\ admitLog' = Admit(admitLog, a)
          ELSE /\ req' = r
               /\ tok' = t
               /\ gw' = [gw EXCEPT ![w] = Returned(w, a, "false")]
               /\ admitLog' = admitLog
  /\ UNCHANGED <<runVars, ctx, lim, batchVars, validVars, sideVars>>

Older(b) == IF enabled(b) THEN [b EXCEPT !.age = Min(b.age + 1, WindowTicks)] ELSE b

\* The clock (g.clk and the timers of sleepCtx) advances by one tick.
ClockTick ==
  /\ req' = Older(req)
  /\ tok' = Older(tok)
  /\ gw' = [w \in RateCallers |->
              IF gw[w].pc = "sleep" THEN [gw[w] EXCEPT !.rem = Max(gw[w].rem - 1, 0)]
              ELSE gw[w]]
  /\ admitLog' = <<NoAdmission>> \o SubSeq(admitLog, 1, WindowTicks - 1)
  /\ UNCHANGED <<runVars, ctx, lim, batchVars, validVars, sideVars>>

RateNext ==
  \/ CallerCancel
  \/ \E w \in RateCallers : WaitCall(w)
  \/ \E w \in RateCallers : WaitCheck(w)
  \/ \E w \in RateCallers : WaitEval(w)
  \/ \E w \in RateCallers : WaitWake(w)
  \/ \E w \in RateCallers : TryCall(w)
  \/ ClockTick

RateSpec == RateInit /\ [][RateNext]_vars

\* Callers keep calling, nobody cancels, nobody uses Try: every goroutine inside a
\* Wait eventually takes its next step (the Go scheduler and the timers), and the
\* clock keeps advancing.  Whether a goroutine calls again is left open.
RateLiveInit ==
  /\ lim \in [rpm : {MaxRPM}, tpm : {MaxTPM}, maxPerReq : {0}]
  /\ req = newBucket(lim.rpm)
  /\ tok = newBucket(lim.tpm)
  /\ gw = [w \in RateCallers |-> IdleCaller]
  /\ admitLog = ZeroLog
  /\ PipeIdle /\ BatchIdle /\ ValidIdle /\ SideIdle

RateLiveNext ==
  \/ \E w \in RateCallers : WaitCall(w)
  \/ \E w \in RateCallers : WaitCheck(w)
  \/ \E w \in RateCallers : WaitEval(w)
  \/ \E w \in RateCallers : WaitWake(w)
  \/ ClockTick

WaitStep(w) == WaitCheck(w) \/ WaitEval(w) \/ WaitWake(w)

RateFairness ==
  /\ WF_vars(ClockTick)
  /\ \A w \in RateCallers : WF_vars(WaitStep(w))

RateLiveSpec == RateLiveInit /\ [][RateLiveNext]_vars /\ RateFairness

\* ---------------------------------------------------------------- gate claims
RECURSIVE SumRequests(_, _)
SumRequests(log, n) == IF n = 0 THEN 0 ELSE log[n].requests + SumRequests(log, n - 1)

RECURSIVE SumTokens(_, _)
SumTokens(log, n) == IF n = 0 THEN 0 ELSE log[n].tokens + SumTokens(log, n - 1)

\* C11: with rpm > 0 (tpm > 0), in runs whose only calls are Wait calls, the
\* requests (tokens) of the calls admitted within any 60-second window -- this
\* tick and the WindowTicks - 1 before it -- never sum to more than rpm (tpm).
C11_WindowLimit ==
  /\ lim.rpm > 0 => SumRequests(admitLog, WindowTicks) <= lim.rpm
  /\ lim.tpm > 0 => SumTokens(admitLog, WindowTicks) <= lim.tpm

\* An ask the liveness claim covers: both dimensions on, 1 <= requests <= rpm,
\* 0 <= tokens <= tpm, tokens within the per-request cap.
Eligible(a) ==
  /\ lim.rpm > 0 /\ lim.tpm > 0
  /\ 1 <= a.requests /\ a.requests <= lim.rpm
  /\ 0 <= a.tokens /\ a.tokens <= lim.tpm
  /\ ~OverCap(lim, a)

\* C12: with both dimensions on, a Wait whose ask is within the limits eventually
\* returns nil when the clock keeps advancing and ctx is never cancelled, also
\* while other goroutines wait on the same key.
C12_WaitReturns ==
  \A w \in RateCallers :
    (gw[w].pc = "check" /\ Eligible(gw[w].ask)) ~> (gw[w].pc = "done" /\ gw[w].res = "nil")

InWait(w) == gw[w].pc \in {"check", "eval", "sleep"}

\* C14 (as stated): a Wait that has not been admitted when ctx is cancelled
\* returns ctx.Err() and deducts nothing from either bucket.
C14_NoAdmitAfterCancel ==
  [][\A w \in RateCallers :
       (Cancelled /\ InWait(w) /\ gw'[w].pc = "done")
       => (gw'[w].res = "Canceled" /\ UNCHANGED <<req, tok>>)]_vars

\* C14 (amended): a Wait that tests ctx at the top of an iteration, or sleeps, while
\* ctx is cancelled returns ctx.Err() without evaluating or changing either bucket
\* (a sleep may first end and lead to the test); a Wait that had passed the test
\* before the cancellation may still be admitted.
C14_CancelSeenAtTest ==
  [][\A w \in RateCallers :
       (Cancelled /\ gw[w].pc \in {"check", "sleep"} /\ gw'[w].pc # gw[w].pc)
       => /\ \/ gw'[w].pc = "done" /\ gw'[w].res = "Canceled"
             \/ gw[w].pc = "sleep" /\ gw'[w].pc = "check"
          /\ UNCHANGED <<req, tok>>]_vars

\* A Wait returned ctx.Err() although both buckets could have served its ask.
C14_Witness ==
  \E w \in RateCallers :
    /\ gw[w].pc = "done"
    /\ gw[w].res = "Canceled"
    /\ enabled(req) /\ enabled(tok)
    /\ canTake(refill(req), gw[w].ask.requests)
    /\ canTake(refill(tok), gw[w].ask.tokens)

\* ---------------------------------------------------------------- batcher
\* plugins/batcher/sliding.  A record is [FileID, Index, Text], Text being the
\* byte length of its text; positions in `recs` are Go's (0-based) plus one.

\* New(nil): bpt := 4, extra := 0
bytesPerToken == 4
extraPerRec == 0

\* estimateTokens: ceil(bytes / bytesPerToken), 0 for no bytes
estimateTokens(len) ==
  LET bytes == len + (IF extraPerRec > 0 THEN extraPerRec ELSE 0)
      d == IF bytesPerToken <= 0 THEN 4 ELSE bytesPerToken
  IN IF bytes = 0 THEN 0 ELSE (bytes + d - 1) \div d

\* pref[i+1] = pref[i] + estimateTokens(records[i].Text), pref[0] = 0
RECURSIVE PrefAt(_, _)
PrefAt(recs, i) == IF i = 0 THEN 0 ELSE PrefAt(recs, i - 1) + estimateTokens(recs[i].Text)

Pref(recs) == [i \in 0 .. Len(recs) |-> PrefAt(recs, i)]

\* sum(pref, a, b): tokens of records a..b (0-based, inclusive), with its clamps
sum(pref, a, b) ==
  IF a > b THEN 0
  ELSE LET a1 == IF a < 0 THEN 0 ELSE a
           n1 == Cardinality(DOMAIN pref)
           b1 == IF b + 1 >= n1 THEN n1 - 2 ELSE b
       IN pref[b1 + 1] - pref[a1]

\* L1 := l - ctxRadius, not below 0
LeftStart(l, radius) == IF l - radius < 0 THEN 0 ELSE l - radius

\* (no right context at all)
RightEndNoContext(r, radius, n) == r - 1

\* R2 := r + ctxRadius - 1, not beyond n - 1
RightEnd(r, radius, n) == IF r + radius - 1 >= n THEN n - 1 ELSE r + radius - 1

\* (a need that leaves the right context out)
needNoRight(pref, l, r, radius, n) ==
  sum(pref, LeftStart(l, radius), l - 1) + sum(pref, l, r - 1)

\* need := sum(pref, L1, L2) + sum(pref, l, r-1) + sum(pref, R1, R2)
need(pref, l, r, radius, n) ==
  sum(pref, LeftStart(l, radius), l - 1) + sum(pref, l, r - 1)
    + sum(pref, r, RightEnd(r, radius, n))

\* (an inner loop that turns down a need equal to the budget)
RECURSIVE ExtendStrict(_, _, _, _, _, _, _)
ExtendStrict(pref, l, r, bestR, radius, n, budget) ==
  IF r > n THEN bestR
  ELSE IF need(pref, l, r, radius, n) < budget
  THEN ExtendStrict(pref, l, r + 1, IF r > l THEN r ELSE bestR, radius, n, budget)
  ELSE bestR

\* The inner loop: extend r while the need fits; bestR is the last r > l that fit.
RECURSIVE Extend(_, _, _, _, _, _, _)
Extend(pref, l, r, bestR, radius, n, budget) ==
  IF r > n THEN bestR
  ELSE IF need(pref, l, r, radius, n) <= budget
  THEN Extend(pref, l, r + 1, IF r > l THEN r ELSE bestR, radius, n, budget)
  ELSE bestR

\* (a cursor that skips the record after the target)
NextLeftSkip(bestR) == bestR + 1

\* l = bestR
NextLeft(bestR) == bestR

\* errors.New(...) of the batcher: an error that matches no sentinel
BatcherErr(what) == Err(what, "Other")

\* The outer loop from cursor l on, batches emitted so far in `acc`.
RECURSIVE Windows(_, _, _, _, _, _)
Windows(recs, pref, l, acc, radius, budget) ==
  LET n == Len(recs) IN
  IF l >= n THEN [err |-> NoErr, batches |-> acc]
  ELSE LET bestR == Extend(pref, l, l, l, radius, n, budget) IN
       IF bestR = l THEN [err |-> BatcherErr("batcher.fit"), batches |-> <<>>]
       ELSE Windows(recs, pref, NextLeft(bestR),
                    Append(acc, [BatchIndex |-> Len(acc),
                                 From |-> LeftStart(l, radius),
                                 To |-> RightEnd(bestR, radius, n),
                                 TargetFrom |-> recs[l + 1].Index,
                                 TargetTo |-> recs[bestR].Index]),
                    radius, budget)

\* First i in 1..n-1 (Go) whose record breaks the FileID or Index rule; n if none.
RECURSIVE FirstBad(_, _)
FirstBad(recs, i) ==
  IF i >= Len(recs) THEN Len(recs)
  ELSE IF recs[i + 1].FileID # recs[1].FileID \/ recs[i + 1].Index # recs[i].Index + 1
  THEN i
  ELSE FirstBad(recs, i + 1)

\* Batcher.Make(ctx, records, limit) for a ctx that is cancelled (c) or not during
\* the whole call: [err, batches].
Make(recs, maxTokens, radius, c) ==
  LET n == Len(recs) IN
  IF maxTokens <= 0 THEN [err |-> BatcherErr("batcher.limit"), batches |-> <<>>]
  ELSE IF n = 0 THEN [err |-> NoErr, batches |-> <<>>]
  ELSE IF recs[1].Index # 0 THEN [err |-> BatcherErr("batcher.index"), batches |-> <<>>]
  ELSE IF c THEN [err |-> CtxErr("batcher"), batches |-> <<>>]
  ELSE IF FirstBad(recs, 1) < n
  THEN [err |-> BatcherErr(IF recs[FirstBad(recs, 1) + 1].FileID # recs[1].FileID
                           THEN "batcher.fileid" ELSE "batcher.index"),
        batches |-> <<>>]
  ELSE Windows(recs, Pref(recs), 0, <<>>, radius, maxTokens)

\* ---------------------------------------------------------------- Run, up to the batcher
\* One text length for every estimate 0..MaxCost.
TextBytes == {0} \cup {bytesPerToken * k - 3 : k \in 1 .. MaxCost}

\* Records of file "f" with Index 0..n-1 and the given text lengths.
GoodRecs(n, lens) == [i \in 1 .. n |-> [FileID |-> "f", Index |-> i - 1, Text |-> lens[i]]]

\* The same records with one of them carrying another Index or another FileID.
OneDefect(recs) ==
  {[recs EXCEPT ![k].Index = v] : k \in 1 .. Len(recs), v \in 0 .. Len(recs)}
    \cup {[recs EXCEPT ![k].FileID = "g"] : k \in 1 .. Len(recs)}

\* Well-formed files of every length and every mix of text lengths, and the
\* ill-formed variants of the files whose texts all have the shortest length.
RecordLists ==
  UNION {{GoodRecs(n, lens) : lens \in [1 .. n -> TextBytes]}
           \cup OneDefect(GoodRecs(n, [i \in 1 .. n |-> 1])) : n \in 0 .. MaxRecords}

\* A file's records as the splitter returned them, the budget settings and the
\* batcher's context radius; Run and Make have not been called.
BatchInit ==
  /\ mkArgs \in [recs : RecordLists, maxTokens : -1 .. MaxBudget,
                 overhead : 0 .. MaxOverhead, radius : 0 .. MaxRadius]
  /\ run = RunIdle
  /\ RateIdle /\ PipeIdle /\ ValidIdle /\ SideIdle

\* (a budget that forgets the overhead)
EffectiveMaxNoOverhead(maxTokens, overhead) == maxTokens

\* effMax := set.MaxTokens; if set.MaxTokens > 0 { effMax = set.MaxTokens - overhead }
EffectiveMax(maxTokens, overhead) ==
  IF maxTokens > 0 THEN maxTokens - overhead ELSE maxTokens

\* Run: sanity passes (all components, some input), then the budget adjustment
RunStart ==
  /\ run.pc = "idle"
  /\ LET eff == EffectiveMax(mkArgs.maxTokens, mkArgs.overhead)
         seen == IF mkArgs.maxTokens > 0 THEN {"promptbuilder"} ELSE {}
     IN IF mkArgs.maxTokens > 0 /\ eff <= 0
        THEN run' = [run EXCEPT !.pc = "returned", !.called = seen,
                                !.err = Err("run", "BudgetExceeded")]
        ELSE run' = [run EXCEPT !.pc = "iterate", !.budget = eff, !.called = seen]
  /\ UNCHANGED <<runVars, ctx, rateVars, mkArgs, validVars, sideVars>>

\* Reader.Iterate and Splitter.Split hand over the file's records; a file without
\* records takes the empty-file path (len(recs) == 0)
RunIterate ==
  /\ run.pc = "iterate"
  /\ IF Len(mkArgs.recs) = 0
     THEN run' = [run EXCEPT !.pc = "emptyAssemble", !.called = @ \cup {"reader", "splitter"}]
     ELSE run' = [run EXCEPT !.pc = "make", !.called = @ \cup {"reader", "splitter"}]
  /\ UNCHANGED <<runVars, ctx, rateVars, mkArgs, validVars, sideVars>>

\* perFile with a Batcher that returns no batches and no error (len(batches) == 0)
RunMakeEmpty ==
  /\ run.pc = "make"
  /\ run' = [run EXCEPT !.pc = "emptyAssemble", !.called = @ \cup {"batcher.empty"}]
  /\ UNCHANGED <<runVars, ctx, rateVars, mkArgs, validVars, sideVars>>

\* Empty file: comp.Assembler.Assemble(ctx, fileID, nil); the linear assembler
\* returns ctx.Err() on a cancelled ctx and the empty stream otherwise.
RunEmptyAssemble ==
  /\ run.pc = "emptyAssemble"
  /\ IF Cancelled
     THEN run' = [run EXCEPT !.pc = "returned", !.called = @ \cup {"assembler"},
                             !.err = CtxErr("assembler")]
     ELSE run' = [run EXCEPT !.pc = "emptyWrite", !.called = @ \cup {"assembler"}]
  /\ UNCHANGED <<runVars, ctx, rateVars, mkArgs, validVars, sideVars>>

\* (the sidecar write left out)
EmptyArtifactsNoSidecar == <<"primary">>

\* Empty file: Writer.Write(fileID, r), then Writer.Write(fileID + ".jsonl", "")
EmptyArtifacts == <<"primary", "sidecar">>

\* What a Writer.Write of an empty stream can return: ctx.Err() on a cancelled
\* ctx, else nil or an I/O error.
EmptyWriteErrs ==
  IF Cancelled THEN {CtxErr("writer")} ELSE {NoErr, Err("writer", "PathError")}

\* Empty file: the next Writer.Write call; its error ends the run, and so does
\* the last artifact.
RunEmptyWrite ==
  /\ run.pc = "emptyWrite"
  /\ \E e \in EmptyWriteErrs :
       LET id == EmptyArtifacts[Len(run.writes) + 1]
           ws == Append(run.writes, [id |-> id, bytes |-> 0])
       IN run' = [run EXCEPT !.called = @ \cup {"writer"},
                             !.writes = ws,
                             !.err = e,
                             !.pc = IF e # NoErr \/ Len(ws) = Len(EmptyArtifacts)
                                    THEN "returned" ELSE "emptyWrite"]
  /\ UNCHANGED <<runVars, ctx, rateVars, mkArgs, validVars, sideVars>>

\* perFile: comp.Batcher.Make(ctx, recs, BatchLimit{MaxTokens: effMax})
RunMake ==
  /\ run.pc = "make"
  /\ LET ret == Make(mkArgs.recs, run.budget, mkArgs.radius, Cancelled)
     IN run' = [run EXCEPT !.pc = IF ret.err = NoErr THEN "dispatch" ELSE "returned",
                           !.called = @ \cup {"batcher"},
                           !.err = ret.err,
                           !.batches = ret.batches]
  /\ UNCHANGED <<runVars, ctx, rateVars, mkArgs, validVars, sideVars>>

\* Batcher.Make called on its own, with Settings.MaxTokens as the limit
MakeDirect ==
  /\ run.pc = "idle"
  /\ LET ret == Make(mkArgs.recs, mkArgs.maxTokens, mkArgs.radius, Cancelled)
     IN run' = [run EXCEPT !.pc = "made",
                           !.budget = mkArgs.maxTokens,
                           !.called = {"batcher"},
                           !.err = ret.err,
                           !.batches = ret.batches]
  /\ UNCHANGED <<runVars, ctx, rateVars, mkArgs, validVars, sideVars>>

BatchNext ==
  \/ CallerCancel
  \/ RunStart
  \/ RunIterate
  \/ RunMake
  \/ RunMakeEmpty
  \/ RunEmptyAssemble
  \/ RunEmptyWrite
  \/ MakeDirect

BatchSpec == BatchInit /\ [][BatchNext]_vars

\* ---------------------------------------------------------------- batcher claims
\* Make has returned without error for at least one record.
MakeSucceeded ==
  /\ run.pc \in {"dispatch", "made"}
  /\ run.err = NoErr
  /\ Len(mkArgs.recs) >= 1

\* The target ranges of bs tile 0..n-1 in order, BatchIndex counting from 0.
Partitions(bs, n) ==
  /\ Len(bs) >= 1
  /\ bs[1].TargetFrom = 0
  /\ bs[Len(bs)].TargetTo = n - 1
  /\ \A i \in 1 .. Len(bs) :
       /\ bs[i].BatchIndex = i - 1
       /\ bs[i].TargetFrom <= bs[i].TargetTo
       /\ i < Len(bs) => bs[i + 1].TargetFrom = bs[i].TargetTo + 1

\* C15: when Make succeeds for records with Index 0..N-1 (N >= 1), the target
\* ranges of the batches partition [0, N-1] without overlap or gap, and the
\* batches carry BatchIndex 0, 1, 2, ... in ascending target order.
C15_TargetsPartition == MakeSucceeded => Partitions(run.batches, Len(mkArgs.recs))

\* Make split a file of MaxRecords records into several batches.
C15_Witness ==
  /\ MakeSucceeded
  /\ Len(mkArgs.recs) = MaxRecords
  /\ Len(run.batches) >= 2

\* Token estimates of the records at 0-based positions a..b, added one by one.
RECURSIVE CostOf(_, _, _)
CostOf(recs, a, b) ==
  IF a > b THEN 0 ELSE estimateTokens(recs[a + 1].Text) + CostOf(recs, a + 1, b)

\* C16: the records a batch carries -- left context, target and right context --
\* have token estimates that sum to at most the budget Make was given.
C16_BatchWithinBudget ==
  MakeSucceeded =>
    \A i \in 1 .. Len(run.batches) :
      CostOf(mkArgs.recs, run.batches[i].From, run.batches[i].To) <= run.budget

\* A batch with right context and a batch with left context, each using its
\* budget to the last token.
C16_Witness ==
  /\ MakeSucceeded
  /\ \E i \in 1 .. Len(run.batches) :
       /\ run.batches[i].To > run.batches[i].TargetTo
       /\ CostOf(mkArgs.recs, run.batches[i].From, run.batches[i].To) = run.budget
  /\ \E i \in 1 .. Len(run.batches) :
       /\ run.batches[i].From < run.batches[i].TargetFrom
       /\ CostOf(mkArgs.recs, run.batches[i].From, run.batches[i].To) = run.budget

\* The records are empty, cross files, or do not carry Index 0, 1, ..., N-1.
BadRecords(recs) ==
  \/ Len(recs) = 0
  \/ \E i \in 1 .. Len(recs) : recs[i].FileID # recs[1].FileID
  \/ \E i \in 1 .. Len(recs) : recs[i].Index # i - 1

\* C17: Make fails with an error that matches InvalidInput, and so classifies as
\* invariant, whenever the records are empty, cross files, are not indexed
\* 0..N-1, or maxTokens <= 0.
C17_InvalidInputRejected ==
  ("batcher" \in run.called /\ ~Cancelled /\ (BadRecords(mkArgs.recs) \/ run.budget <= 0))
    => (run.err.kind = "InvalidInput" /\ Classify(run.err) = "invariant")

\* C18: when at some left cursor not even one target record fits with its
\* context, Make fails with an error that matches BudgetExceeded, and so
\* classifies as budget, and returns no batches.
C18_BudgetExceededKind ==
  ("batcher" \in run.called /\ run.err.at = "batcher.fit")
    => (run.err.kind = "BudgetExceeded" /\ Classify(run.err) = "budget" /\ run.batches = <<>>)

\* Run has been called (and not Make on its own).
ViaRun == run.pc \in {"iterate", "make", "dispatch", "returned"}

\* Run stopped at the budget adjustment: a budget-class error, nothing else called.
StoppedAtBudget ==
  /\ run.pc = "returned"
  /\ run.err.kind = "BudgetExceeded"
  /\ Classify(run.err) = "budget"
  /\ run.called \cap {"reader", "splitter", "batcher", "llm", "assembler", "writer"} = {}

AlignedAnywhere(c, expect_) == TRUE

\* c.From != expect is refused
Aligned(c, expect_) == c.From = expect_

\* The loop of ValidatePerRecord from candidate i on: [err, spans].
RECURSIVE PerRecordLoop(_, _, _, _)
PerRecordLoop(tgt, cands, i, spans) ==
  IF i > Len(cands)
  THEN IF tgt.From + Len(cands) # tgt.To + 1
       THEN [err |-> Err("validate", "ResponseInvalid"), spans |-> <<>>]
       ELSE [err |-> NoErr, spans |-> spans]
  ELSE LET c == cands[i] IN
       IF c.From > c.To THEN [err |-> Err("validate", "ResponseInvalid"), spans |-> <<>>]
       ELSE IF c.From # c.To THEN [err |-> Err("validate", "ResponseInvalid"), spans |-> <<>>]
       ELSE IF ~Aligned(c, tgt.From + (i - 1))
       THEN [err |-> Err("validate", "ResponseInvalid"), spans |-> <<>>]
       ELSE PerRecordLoop(tgt, cands, i + 1, Append(spans, [From |-> c.From, To |-> c.To]))

\* ValidatePerRecord(tgt, cands)
ValidatePerRecord(tgt, cands) ==
  IF tgt.From > tgt.To THEN [err |-> Err("validate", "InvalidInput"), spans |-> <<>>]
  ELSE IF Len(cands) # tgt.To - tgt.From + 1
  THEN [err |-> Err("validate", "ResponseInvalid"), spans |-> <<>>]
  ELSE PerRecordLoop(tgt, cands, 1, <<>>)

\* The whole-range test with the To comparison left out.
SameRangeFromOnly(c, tgt) == c.From = tgt.From

\* c.From != tgt.From || c.To != tgt.To is refused
SameRange(c, tgt) == c.From = tgt.From /\ c.To = tgt.To

\* ValidateWhole(tgt, cands)
ValidateWhole(tgt, cands) ==
  IF tgt.From > tgt.To THEN [err |-> Err("validate", "InvalidInput"), spans |-> <<>>]
  ELSE IF Len(cands) # 1
  THEN [err |-> Err("validate", "ResponseInvalid"), spans |-> <<>>]
  ELSE IF ~SameRange(cands[1], tgt)
  THEN [err |-> Err("validate", "ResponseInvalid"), spans |-> <<>>]
  ELSE [err |-> NoErr, spans |-> <<[From |-> cands[1].From, To |-> cands[1].To]>>]

Ranges == [From : 0 .. MaxIdx, To : 0 .. MaxIdx]

CandLists == UNION {[1 .. n -> Ranges] : n \in 0 .. MaxCands}

\* Any target and any list of candidates over the small index range.
ValidInit ==
  /\ vArgs \in [tgt : Ranges, cands : CandLists]
  /\ vRet = [pc |-> "idle", err |-> NoErr, spans |-> <<>>]
  /\ RateIdle /\ PipeIdle /\ BatchIdle /\ SideIdle

\* A decoder calls ValidatePerRecord on what it parsed.
ValidateCall ==
  /\ vRet.pc = "idle"
  /\ LET ret == ValidatePerRecord(vArgs.tgt, vArgs.cands)
     IN vRet' = [pc |-> "done", err |-> ret.err, spans |-> ret.spans]
  /\ UNCHANGED <<runVars, ctx, rateVars, batchVars, vArgs, sideVars>>

\* A decoder calls ValidateWhole on what it parsed.
ValidateWholeCall ==
  /\ vRet.pc = "idle"
  /\ LET ret == ValidateWhole(vArgs.tgt, vArgs.cands)
     IN vRet' = [pc |-> "doneWhole", err |-> ret.err, spans |-> ret.spans]
  /\ UNCHANGED <<runVars, ctx, rateVars, batchVars, vArgs, sideVars>>

ValidNext == ValidateCall \/ ValidateWholeCall

ValidSpec == ValidInit /\ [][ValidNext]_vars

\* ---------------------------------------------------------------- validator claims
\* [From,From], [From+1,From+1], ..., [To,To]
ExactSingles(tgt) ==
  [i \in 1 .. (tgt.To - tgt.From + 1) |-> [From |-> tgt.From + i - 1, To |-> tgt.From + i - 1]]

\* C20: for a target with From <= To, ValidatePerRecord returns spans without
\* error exactly when the candidates are [From,From], ..., [To,To] in that order,
\* and returns ResponseInvalid in every other case.
C20_PerRecordExact ==
  (vRet.pc = "done" /\ vArgs.tgt.From <= vArgs.tgt.To) =>
    IF vArgs.cands = ExactSingles(vArgs.tgt)
    THEN vRet.err = NoErr /\ vRet.spans = vArgs.cands
    ELSE vRet.err.kind = "ResponseInvalid" /\ vRet.spans = <<>>

\* A target of several records was accepted.
C20_Witness ==
  /\ vRet.pc = "done"
  /\ vRet.err = NoErr
  /\ vArgs.tgt.From > 0
  /\ Len(vRet.spans) >= 2

\* C21: for a target with From <= To, ValidateWhole returns exactly one span,
\* carrying the target's range, when there is exactly one candidate and its From
\* and To both equal the target's; in every other case it returns ResponseInvalid
\* and no span.
C21_WholeExact ==
  (vRet.pc = "doneWhole" /\ vArgs.tgt.From <= vArgs.tgt.To) =>
    IF Len(vArgs.cands) = 1 /\ vArgs.cands[1] = vArgs.tgt
    THEN vRet.err = NoErr /\ vRet.spans = <<vArgs.tgt>>
    ELSE vRet.err.kind = "ResponseInvalid" /\ vRet.spans = <<>>

\* A target of several records was accepted as one span.
C21_Witness ==
  /\ vRet.pc = "doneWhole"
  /\ vRet.err = NoErr
  /\ vArgs.tgt.From < vArgs.tgt.To
  /\ Len(vRet.spans) = 1

\* ---------------------------------------------------------------- diag.Classify on error trees
\* What errors.Is / errors.As can find in an error: the sentinels, the two
\* context errors, *os.PathError, net.Error, and anything else.
Sentinels ==
  {"BudgetExceeded", "RateLimited", "ResponseInvalid", "InvariantViolation",
   "InvalidInput", "SeqInvalid", "PathInvalid"}

Marks == Sentinels \cup {"Canceled", "DeadlineExceeded", "PathError", "NetError", "Other"}

\* context.DeadlineExceeded has Timeout() and Temporary(): it is a net.Error too.
ErrorTrees ==
  {m \in SUBSET Marks : m # {} /\ ("DeadlineExceeded" \in m => "NetError" \in m)}

\* (protocol tested before budget)
ClassifyTreeProtocolFirst(marks) ==
  IF marks = {} THEN "unknown"
  ELSE IF "Canceled" \in marks \/ "DeadlineExceeded" \in marks THEN "cancel"
  ELSE IF "ResponseInvalid" \in marks THEN "protocol"
  ELSE IF "BudgetExceeded" \in marks \/ "RateLimited" \in marks THEN "budget"
  ELSE IF "InvariantViolation" \in marks \/ "InvalidInput" \in marks
          \/ "SeqInvalid" \in marks \/ "PathInvalid" \in marks THEN "invariant"
  ELSE IF "PathError" \in marks THEN "io"
  ELSE IF "NetError" \in marks THEN "network"
  ELSE "unknown"

\* Classify(err) on an error whose tree holds `marks`; {} is the nil error.
ClassifyTree(marks) ==
  IF marks = {} THEN "unknown"
  ELSE IF "Canceled" \in marks \/ "DeadlineExceeded" \in marks THEN "cancel"
  ELSE IF "BudgetExceeded" \in marks \/ "RateLimited" \in marks THEN "budget"
  ELSE IF "ResponseInvalid" \in marks THEN "protocol"
  ELSE IF "InvariantViolation" \in marks \/ "InvalidInput" \in marks
          \/ "SeqInvalid" \in marks \/ "PathInvalid" \in marks THEN "invariant"
  ELSE IF "PathError" \in marks THEN "io"
  ELSE IF "NetError" \in marks THEN "network"
  ELSE "unknown"

\* nil, a bare error, or an error wrapping or joining several.
ClassInit ==
  /\ cls \in [pc : {"idle"}, marks : ErrorTrees \cup {{}}, code : {"unknown"}]
  /\ CliIdle /\ TwinIdle
  /\ RateIdle /\ PipeIdle /\ BatchIdle /\ ValidIdle

ClassifyCall ==
  /\ cls.pc = "idle"
  /\ cls' = [cls EXCEPT !.pc = "done", !.code = ClassifyTree(cls.marks)]
  /\ UNCHANGED <<runVars, ctx, rateVars, batchVars, validVars, cli, twin>>

ClassNext == ClassifyCall

ClassSpec == ClassInit /\ [][ClassNext]_vars

\* ---------------------------------------------------------------- classification claim
\* The codes in the order Classify tests them, with what each one looks for.
Precedence ==
  << [code |-> "cancel", looks |-> {"Canceled", "DeadlineExceeded"}],
     [code |-> "budget", looks |-> {"BudgetExceeded", "RateLimited"}],
     [code |-> "protocol", looks |-> {"ResponseInvalid"}],
     [code |-> "invariant",
      looks |-> {"InvariantViolation", "InvalidInput", "SeqInvalid", "PathInvalid"}],
     [code |-> "io", looks |-> {"PathError"}],
     [code |-> "network", looks |-> {"NetError"}] >>

\* C22: Classify maps an error to the first code, in the order cancel, budget,
\* protocol, invariant, io, network, one of whose errors is found in it; so every
\* sentinel, bare or wrapped, gets a code other than unknown, and nil and errors
\* holding none of them get unknown. A bare error gets the code the per-file run
\* uses for it.
C22_ClassifyPrecedence ==
  cls.pc = "done" =>
    /\ \A i \in 1 .. Len(Precedence) :
         cls.code = Precedence[i].code <=>
           /\ cls.marks \cap Precedence[i].looks # {}
           /\ \A j \in 1 .. (i - 1) : cls.marks \cap Precedence[j].looks = {}
    /\ cls.marks \cap Sentinels # {} => cls.code # "unknown"
    /\ cls.marks \subseteq {"Other"} => cls.code = "unknown"
    /\ \A k \in Marks : cls.marks = {k} => cls.code = Classify(Err("x", k))

\* A sentinel of a later class wrapped together with one of an earlier class.
C22_Witness ==
  /\ cls.pc = "done"
  /\ {"ResponseInvalid", "RateLimited", "PathError"} \subseteq cls.marks
  /\ cls.code = "budget"

\* ---------------------------------------------------------------- empty file claim
\* Run took the empty-file path: no record from the splitter, or no batch from
\* the batcher.
EmptyFile ==
  /\ run.pc \in {"emptyAssemble", "emptyWrite", "returned"}
  /\ "reader" \in run.called
  /\ Len(mkArgs.recs) = 0 \/ "batcher.empty" \in run.called

RootLists == UNION {[1 .. n -> {"-", "a", ""}] : n \in 0 .. MaxRoots}

\* config.Validate on the merged configuration: what it refuses first, or "ok".
\* (LLM, provider and component names are summed up in `resolvable`.)
Validate(in) ==
  IF Len(in.inputs) = 0 THEN "inputs"
  ELSE IF \E i \in 1 .. Len(in.inputs) : in.inputs[i] = "" THEN "inputs"
  ELSE IF (\E i \in 1 .. Len(in.inputs) : in.inputs[i] = "-") /\ Len(in.inputs) > 1
  THEN "stdin"
  ELSE IF in.concurrency < 1 THEN "settings"
  ELSE IF in.maxTokens <= 0 THEN "settings"
  ELSE IF ~in.resolvable THEN "names"
  ELSE "ok"

\* main: os.Exit(run()); flag.Parse exits with 2 on a flag it cannot parse.
\* [exit, why]: the exit code and the step that decided it.
Exit(in) ==
  IF in.flagErr THEN [exit |-> 2, why |-> "flags"]
  ELSE IF in.init = "fail" THEN [exit |-> 3, why |-> "init"]
  ELSE IF in.init = "ok" THEN [exit |-> 0, why |-> "ok"]
  ELSE IF in.loadErr THEN [exit |-> 3, why |-> "load"]
  ELSE IF in.envErr THEN [exit |-> 3, why |-> "env"]
  ELSE IF Validate(in) # "ok" THEN [exit |-> 3, why |-> Validate(in)]
  ELSE IF in.preflightErr THEN [exit |-> 3, why |-> "preflight"]
  ELSE IF in.assembleErr THEN [exit |-> 3, why |-> "assemble"]
  ELSE IF in.runErr THEN [exit |-> 1, why |-> "run"]
  ELSE [exit |-> 0, why |-> "ok"]

\* Any command line, configuration and environment, and any fate of the steps.
CliInit ==
  /\ cli \in [pc : {"idle"}, exit : {0}, why : {"none"},
              in : [flagErr : BOOLEAN, init : {"none", "ok", "fail"}, loadErr : BOOLEAN,
                    envErr : BOOLEAN, inputs : RootLists, concurrency : 0 .. 1,
                    maxTokens : 0 .. 1, resolvable : BOOLEAN, preflightErr : BOOLEAN,
                    assembleErr : BOOLEAN, runErr : BOOLEAN]]
  /\ ClassIdle /\ TwinIdle
  /\ RateIdle /\ PipeIdle /\ BatchIdle /\ ValidIdle

CliRun ==
  /\ cli.pc = "idle"
  /\ cli' = [cli EXCEPT !.pc = "exited", !.exit = Exit(cli.in).exit, !.why = Exit(cli.in).why]
  /\ UNCHANGED <<runVars, ctx, rateVars, batchVars, validVars, cls, twin>>

CliNext == CliRun

CliSpec == CliInit /\ [][CliNext]_vars

\* ---------------------------------------------------------------- exit code claim
\* C24: the exit code is 0 on success, 1 when the pipeline run fails, 2 on an
\* argument error (a flag that does not parse, or '-' mixed with other input
\* roots), and 3 on a configuration, validation or assembly failure.
C24_ExitCodes ==
  cli.pc = "exited" =>
    cli.exit = CASE cli.why = "ok" -> 0
                 [] cli.why = "run" -> 1
                 [] cli.why \in {"flags", "stdin"} -> 2
                 [] OTHER -> 3

\* ---------------------------------------------------------------- Snapshot beside Wait and Try
\* Two gates built alike at clock reading 0 and given the same Wait and Try
\* calls with the same clock readings; gate a is also asked for Snapshots.
\* A bucket here keeps `last`, the reading of its latest refill, and g.clk may
\* return any reading in Clock, in any order.
Clock == 0 .. WindowTicks

\* newBucket(capacity, now) at reading 0
newBucketAt(capacity) ==
  IF capacity <= 0 THEN [cap |-> 0, level |-> 0, last |-> 0]
  ELSE [cap |-> capacity, level |-> capacity * WindowTicks, last |-> 0]

\* (a refill that does not stop at the capacity)
refillAtUnclamped(b, now) ==
  IF ~enabled(b) THEN b
  ELSE IF now < b.last THEN b
  ELSE IF now - b.last <= 0 THEN b
  ELSE [b EXCEPT !.level = b.level + (now - b.last) * b.cap, !.last = now]

\* bucket.refill(now) with the reading given: nothing when now is before last or
\* dt <= 0, else level += dt * rate, clamped to cap, and last = now
refillAt(b, now) ==
  IF ~enabled(b) THEN b
  ELSE IF now < b.last THEN b
  ELSE IF now - b.last <= 0 THEN b
  ELSE [b EXCEPT !.level = Min(b.level + (now - b.last) * b.cap, b.cap * WindowTicks),
                 !.last = now]

\* Try(a), or one round of Wait's loop, at reading now: [e, out]
Admission(l, e, a, now) ==
  IF BadAsk(a) \/ OverCap(l, a) THEN [e |-> e, out |-> "reject"]
  ELSE LET r == refillAt(e.req, now)
           t == refillAt(e.tok, now)
       IN IF canTake(r, a.requests) /\ canTake(t, a.tokens)
          THEN [e |-> [req |-> take(r, a.requests), tok |-> take(t, a.tokens)], out |-> "admit"]
          ELSE [e |-> [req |-> r, tok |-> t], out |-> "reject"]

\* Snapshot(key) at reading now: refills both buckets, then reads their levels
Snapshot(e, now) == [req |-> refillAt(e.req, now), tok |-> refillAt(e.tok, now)]

TwinInit ==
  /\ \E l \in [rpm : {0, MaxRPM}, tpm : {0, MaxTPM}, maxPerReq : {0, MaxTPM - 1}] :
       twin = [lim |-> l,
               a |-> [req |-> newBucketAt(l.rpm), tok |-> newBucketAt(l.tpm)],
               b |-> [req |-> newBucketAt(l.rpm), tok |-> newBucketAt(l.tpm)],
               oa |-> "none", ob |-> "none"]
  /\ ClassIdle /\ CliIdle
  /\ RateIdle /\ PipeIdle /\ BatchIdle /\ ValidIdle

\* The same Wait round or Try on both gates.
TwinAsk ==
  /\ \E a \in Asks, now \in Clock :
       LET ra == Admission(twin.lim, twin.a, a, now)
           rb == Admission(twin.lim, twin.b, a, now)
       IN twin' = [twin EXCEPT !.a = ra.e, !.b = rb.e, !.oa = ra.out, !.ob = rb.out]
  /\ UNCHANGED <<runVars, ctx, rateVars, batchVars, validVars, cls, cli>>

\* A Snapshot call on gate a only.
TwinSnapshot ==
  /\ \E now \in Clock : twin' = [twin EXCEPT !.a = Snapshot(twin.a, now)]
  /\ UNCHANGED <<runVars, ctx, rateVars, batchVars, validVars, cls, cli>>

TwinNext == TwinAsk \/ TwinSnapshot

TwinSpec == TwinInit /\ [][TwinNext]_vars

\* ---------------------------------------------------------------- Snapshot claim
\* C25: whatever Snapshot calls are put between the Wait and Try calls, and
\* whatever the clock readings, every Wait round and every Try is admitted or
\* rejected as it is without the Snapshot calls.
C25_SnapshotNeutral == twin.oa = twin.ob

\* ---------------------------------------------------------------- writers and pipes
\* One more write at the end of a stream.
Appended(old, new) == Len(new) = Len(old) + 1 /\ SubSeq(new, 1, Len(old)) = old

\* C26: each of the two Writer.Write calls of a run is made once (a call that
\* has returned is not made again), and every write into the primary or the
\* sidecar pipe is a step of the commit gate that appends one write to one of
\* the two streams; no worker, producer or writer step writes into a pipe.
C26_SingleWriter ==
  [][ /\ \A p \in Pipes : wr[p].st = "done" => wr'[p] = wr[p]
      /\ outVars' # outVars =>
           /\ GateStep
           /\ \/ Appended(primaryOut, primaryOut') /\ sidecarOut' = sidecarOut
              \/ Appended(sidecarOut, sidecarOut') /\ primaryOut' = primaryOut ]_vars

\* The gate copies into the primary pipe while a worker is about to send the
\* result of a later batch.
C26_Witness ==
  /\ gpc = "copy"
  /\ Len(sidecarOut) > Len(primaryOut)
  /\ Len(primaryOut) >= 1
  /\ \E w \in Workers : wk[w].pc = "send" /\ wk[w].err = NoErr

\* C28: when the run has recorded a first error, no Writer.Write call ends with
\* nil: a call that reads the end of its stream gets the first error, the cause
\* both pipes are closed with, and the only other way a call ends is with its
\* own error.
C28_ErrorClosesStreams ==
  firstErr # NoErr =>
    \A p \in Pipes :
      wr[p].st = "done" =>
        /\ wr[p].err # NoErr
        /\ wr[p].err = firstErr \/ wr[p].err.at = "writer"

\* Both writers read the first error at the end of their streams, the primary
\* one after part of the output.
C28_Witness ==
  /\ gpc = "returned"
  /\ firstErr # NoErr
  /\ \A p \in Pipes : wr[p].err = firstErr
  /\ Len(primaryOut) >= 1
  /\ primaryOut # RefUpTo(nBatches)

\* C29: a run returns nil only when every batch was committed in order to both
\* streams; a run whose caller cancelled before that returns an error.
C29_NilMeansComplete ==
  (gpc = "returned" /\ retErr = NoErr) =>
    /\ expect = nBatches
    /\ primaryOut = RefUpTo(nBatches)
    /\ sidecarOut = RefUpTo(nBatches)

\* ---------------------------------------------------------------- a writer that fails
\* FS.Write returns an I/O error (MkdirAll, CreateTemp, a write or flush to the
\* file) between two Reads: the call ends, the pipe's reader end is left open.
WriterFail(p) ==
  /\ wr[p].st = "check"
  /\ wr' = [wr EXCEPT ![p] = [st |-> "done", err |-> Err("writer", "PathError")]]
  /\ UNCHANGED <<cfgVars, ctx, prodVars, wk, outCh, outClosed, gateVars, outVars>>

WriterFailNext == Next \/ \E p \in Pipes : WriterFail(p)

\* Shutdown runs in which a Writer.Write call may fail; the scheduling of LiveSpec.
WriterFailSpec == LiveInit /\ [][WriterFailNext]_vars /\ Fairness

\* A Writer.Write call has returned its own I/O error.
WriterFailed(p) == wr[p].st = "done" /\ wr[p].err = Err("writer", "PathError")

\* C27: after a Writer.Write call has returned an error without reading its
\* stream to the end, the run returns, unless an internal error or a
\* cancellation comes first; and a run that returns with no internal error
\* returns the primary writer's error if there is one, else the sidecar's.
C27_WriterErrorReturned ==
  /\ (\E p \in Pipes : WriterFailed(p))
       ~> (gpc = "returned" \/ firstErr # NoErr \/ Cancelled)
  /\ [](gpc = "returned" /\ firstErr = NoErr =>
          retErr = IF wr["primary"].err # NoErr THEN wr["primary"].err ELSE wr["sidecar"].err)

\* ---------------------------------------------------------------- one result per job
\* Jobs a worker has dequeued and not yet answered.
JobsInHand == Cardinality({w \in Workers : wk[w].pc \notin {"idle", "off", "exit"}})

\* C30: every job the producer enqueued is in exactly one place: still in inCh,
\* in the hands of a worker, as one result in outCh, or as one result the gate
\* has received; and when the gate's receive loop has ended it has received as
\* many results as jobs were enqueued.
C30_OneResultPerJob ==
  /\ next = Len(inCh) + JobsInHand + Len(outCh) + doneCount
  /\ gpc \in {"await", "returned"} => doneCount = next

\* A run of two workers ended after every path: a success and a failure were
\* received, and the producer had stopped early.
C30_Witness ==
  /\ gpc = "returned"
  /\ concurrency = 2
  /\ doneCount = 2
  /\ next = 2
  /\ expect = 1
  /\ firstErr # NoErr

\* ---------------------------------------------------------------- asks beyond a capacity
\* A valid ask that passes the per-request cap and asks for more than an enabled
\* bucket can ever hold.
Oversize(a) ==
  /\ ~BadAsk(a)
  /\ ~OverCap(lim, a)
  /\ \/ lim.rpm > 0 /\ a.requests > lim.rpm
     \/ lim.tpm > 0 /\ a.tokens > lim.tpm

WaitResults == {"nil", "InvalidInput", "Canceled"}

\* C31: a Wait whose requests exceed an enabled rpm, or whose tokens exceed an
\* enabled tpm while passing the per-request cap, is never admitted and never
\* refused at once: the only result it ever returns is ctx.Err(), and only after
\* ctx was cancelled.
C31_OversizeWaitsForCancel ==
  \A w \in RateCallers :
    (gw[w].pc = "done" /\ gw[w].res \in WaitResults /\ Oversize(gw[w].ask))
    => (gw[w].res = "Canceled" /\ Cancelled)

\* Such a Wait sleeps, ctx live, while both buckets are full.
C31_Witness ==
  \E w \in RateCallers :
    /\ gw[w].pc = "sleep"
    /\ Oversize(gw[w].ask)
    /\ ~Cancelled
    /\ refill(req).level = req.cap * WindowTicks
    /\ refill(tok).level = tok.cap * WindowTicks

\* ---------------------------------------------------------------- Wait and Try side by side
\* Two goroutines share one key, each dimension limited or not, no per-request
\* cap: goroutine 1 calls Wait again and again, goroutine 2 Try, in any interleaving, while
\* the clock advances; nobody cancels.
RateMixInit ==
  /\ lim \in [rpm : {0, MaxRPM}, tpm : {0, MaxTPM}, maxPerReq : {0}]
  /\ req = newBucket(lim.rpm)
  /\ tok = newBucket(lim.tpm)
  /\ gw = [w \in RateCallers |-> IdleCaller]
  /\ admitLog = ZeroLog
  /\ PipeIdle /\ BatchIdle /\ ValidIdle /\ SideIdle

RateMixNext ==
  \/ WaitCall(1)
  \/ WaitCheck(1)
  \/ WaitEval(1)
  \/ WaitWake(1)
  \/ TryCall(2)
  \/ ClockTick

RateMixSpec == RateMixInit /\ [][RateMixNext]_vars

Deducted(b, b2, n) ==
  b2.level = refill(b).level - (IF enabled(b) /\ n > 0 THEN n * WindowTicks ELSE 0)

\* Bucket b became b2 with nothing removed: untouched, or refilled.
NotDeducted(b, b2) == b2.level \in {b.level, refill(b).level}

\* C33: Try returns within its one step, and every admission decision of Try and
\* of Wait takes the ask from both buckets when both can serve it and from neither
\* otherwise: Try then returns false, Wait goes to sleep.
C33_BothOrNeither ==
  [][\A w \in RateCallers :
       /\ TryCall(w) =>
            LET a == gw'[w].ask
            IN /\ gw'[w].pc = "done"
               /\ gw'[w].res \in {"true", "false"}
               /\ IF gw'[w].res = "true"
                  THEN /\ canTake(refill(req), a.requests) /\ canTake(refill(tok), a.tokens)
                       /\ Deducted(req, req', a.requests) /\ Deducted(tok, tok', a.tokens)
                  ELSE /\ BadAsk(a) \/ OverCap(lim, a)
                          \/ ~(canTake(refill(req), a.requests) /\ canTake(refill(tok), a.tokens))
                       /\ NotDeducted(req, req') /\ NotDeducted(tok, tok')
       /\ WaitEval(w) =>
            LET a == gw[w].ask
            IN IF gw'[w].pc = "done"
               THEN /\ gw'[w].res = "nil"
                    /\ canTake(refill(req), a.requests) /\ canTake(refill(tok), a.tokens)
                    /\ Deducted(req, req', a.requests) /\ Deducted(tok, tok', a.tokens)
               ELSE /\ gw'[w].pc = "sleep"
                    /\ ~(canTake(refill(req), a.requests) /\ canTake(refill(tok), a.tokens))
                    /\ NotDeducted(req, req') /\ NotDeducted(tok, tok')]_vars

\* Try returned false for an ask the request bucket could serve and the token
\* bucket could not: the request bucket is still full.
C33_Witness ==
  \E w \in RateCallers :
    /\ gw[w].pc = "done" /\ gw[w].res = "false"
    /\ ~BadAsk(gw[w].ask) /\ ~OverCap(lim, gw[w].ask)
    /\ enabled(req) /\ enabled(tok)
    /\ req.level = req.cap * WindowTicks
    /\ ~canTake(tok, gw[w].ask.tokens)
    /\ tok.age = 0

\* ---------------------------------------------------------------- the worker stage alone
\* Producer and worker of a per-file run under any Settings that Run accepts:
\* MaxRetries from -1, with and without a gate, MaxTokens unset or set.  The
\* results stay in outCh, whose capacity the batches of the file do not exceed.
StageInit ==
  /\ concurrency = 1
  /\ maxRetries \in -1 .. MaxRetriesBound
  /\ gateOn \in BOOLEAN
  /\ nBatches \in 1 .. RetryBatches
  /\ errKinds = {"NetError", "ResponseInvalid"}
  /\ InitCommon
  /\ mkArgs \in [recs : {<<>>}, maxTokens : {0, MaxBudget}, overhead : {0}, radius : {0}]
  /\ run = RunIdle
  /\ RateIdle /\ ValidIdle /\ SideIdle

StageNext ==
  \/ CallerCancel
  \/ ProducerSend
  \/ ProducerStop
  \/ ProducerDone
  \/ \E w \in Workers : WorkerTake(w)
  \/ \E w \in Workers : WorkerExit(w)
  \/ \E w \in Workers : WorkerGateAsk(w)
  \/ \E w \in Workers : WorkerAttempt(w)
  \/ \E w \in Workers : WorkerSleep(w)
  \/ \E w \in Workers : WorkerSend(w)

StageSpec == StageInit /\ [][StageNext]_vars

\* Worker w's latest Gate.Wait was for ask a and returned nil.
GateSaidYes(g, a) == g.pc = "done" /\ g.res = "nil" /\ g.ask = a

\* The gate part of an attempt, for a worker whose gate is asked `ask(b)` for batch b:
\* an Invoke is entered only from a Gate.Wait that returned nil for this attempt and
\* this ask; a Gate.Wait that returned an error ends the job there, with no Invoke, no
\* further attempt, and the gate's error as the result put on outCh.
GateBeforeInvoke(ask(_)) ==
  \A w \in Workers :
    /\ (gateOn /\ wk'[w].pc = "invoke" /\ wk[w].pc # "invoke")
       => /\ wk[w].pc = "gate"
          /\ GateSaidYes(gw'[w], ask(wk[w].b))
    /\ (gateOn /\ wk[w].pc = "invoke" /\ wk'[w].inv = wk[w].inv + 1)
       => GateSaidYes(gw[w], ask(wk[w].b))
    /\ wk[w].pc # "invoke" => wk'[w].inv \in {wk[w].inv, 0}
    /\ (wk[w].pc = "gate" /\ wk'[w].pc # "gate" /\ wk'[w].pc # "invoke")
       => /\ gw'[w].pc = "done" /\ gw'[w].res # "nil"
          /\ wk'[w].pc = "send"
          /\ wk'[w].err = Err("gate", gw'[w].res)
          /\ wk'[w].inv = wk[w].inv /\ wk'[w].att = wk[w].att
    /\ (wk[w].pc = "send" /\ wk[w].err.at = "gate" /\ wk'[w] # wk[w])
       => /\ wk'[w] = IdleWorker
          /\ outCh' = Append(outCh, [idx |-> wk[w].b, att |-> wk[w].att, err |-> wk[w].err])

\* the prompt's token estimate, whatever MaxTokens is
EstimateAsk(b) == [requests |-> 1, tokens |-> approxPromptTokens(PromptBytes(b), 0)]

\* the ask the worker makes under the run's MaxTokens
SettingsAsk(b) == GateAsk(mkArgs.maxTokens, b)

C40_SuccessNeedsInvokeAndDecode ==
  [][\A w \in Workers :
       (wk'[w].pc = "send" /\ wk'[w].err = NoErr /\ wk[w].pc # "send")
       => (wk[w].pc = "invoke" /\ wk'[w].inv = wk[w].inv + 1)]_vars

\* ---------------------------------------------------------------- bounds of a per-file run
\* Workers inside LLM.Invoke (or the Decode that follows it).
InFlight == {w \in Workers : wk[w].pc = "invoke"}

C35_ResultsFull == Len(outCh) = 2 * concurrency

\* ---------------------------------------------------------------- Concurrency below 1
\* Per-file runs of a Run that was given Settings.Concurrency = 0: the channels
\* are unbuffered, and what the producer and a worker hand over goes from one
\* goroutine to the other in a single step.
ZeroInit ==
  /\ concurrency = 0
  /\ maxRetries \in 0 .. MaxRetriesBound
  /\ gateOn \in BOOLEAN
  /\ nBatches \in 1 .. (RetryBatches + 1)
  /\ errKinds = {"NetError", "ResponseInvalid"}
  /\ InitCommon
  /\ RateIdle /\ BatchIdle /\ ValidIdle /\ SideIdle

ZeroNext ==
  \/ CallerCancel
  \/ \E w \in Workers : ProducerHandoff(w)
  \/ ProducerStop
  \/ ProducerDone
  \/ \E w \in Workers : WorkerExit(w)
  \/ \E w \in Workers : WorkerGateWait(w)
  \/ \E w \in Workers : WorkerAttempt(w)
  \/ \E w \in Workers : WorkerSleep(w)
  \/ \E w \in Workers : WorkerHandoff(w)
  \/ CloseOut
  \/ GateEncode
  \/ GateAssemble
  \/ GateCopy
  \/ GateClose
  \/ GateReturn
  \/ \E p \in Pipes : WriterCheck(p)
  \/ \E p \in Pipes : WriterEnd(p)

ZeroSpec == ZeroInit /\ [][ZeroNext]_vars

\* The worker goroutines Run started.
Started == {w \in Workers : wk[w].pc # "off"}

\* C36: with Settings.Concurrency < 1, Run goes on as with Concurrency = 1: one
\* worker, and a job channel and a result channel of capacity at least 1.
C36_NormalisedToOne ==
  concurrency < 1 => (Cardinality(Started) = 1 /\ ChanCap >= 1)

\* ---------------------------------------------------------------- maximal targets, context ranges
\* C37: every batch Make emits has a maximal target: when its target ends before
\* the last record, the same left context, the target with one more record and the
\* right context moved on by one cost more than the budget; a window that costs
\* exactly the budget is taken.
C37_TargetMaximal ==
  MakeSucceeded =>
    \A i \in 1 .. Len(run.batches) :
      LET b == run.batches[i]
          n == Len(mkArgs.recs)
      IN b.TargetTo < n - 1 =>
           CostOf(mkArgs.recs, b.From, Min(n - 1, b.TargetTo + 1 + mkArgs.radius)) > run.budget

\* A batch that ends before the last record and uses its budget to the last
\* token, while one more target record would overrun it by one.
C37_Witness ==
  /\ MakeSucceeded
  /\ \E i \in 1 .. Len(run.batches) :
       LET b == run.batches[i]
           n == Len(mkArgs.recs)
       IN /\ b.TargetTo < n - 1
          /\ b.TargetTo > b.TargetFrom
          /\ CostOf(mkArgs.recs, b.From, b.To) = run.budget
          /\ CostOf(mkArgs.recs, b.From, Min(n - 1, b.TargetTo + 1 + mkArgs.radius))
               = run.budget + 1

\* C38: the records of a batch are the range from max(0, TargetFrom - radius) to
\* min(N - 1, TargetTo + radius), so From <= TargetFrom <= TargetTo <= To, with
\* min(radius, TargetFrom) records of left context and min(radius, N - 1 -
\* TargetTo) of right context.
C38_ContextRange ==
  MakeSucceeded =>
    \A i \in 1 .. Len(run.batches) :
      LET b == run.batches[i]
          n == Len(mkArgs.recs)
      IN /\ b.From = Max(0, b.TargetFrom - mkArgs.radius)
         /\ b.To = Min(n - 1, b.TargetTo + mkArgs.radius)
         /\ b.From <= b.TargetFrom /\ b.TargetFrom <= b.TargetTo /\ b.TargetTo <= b.To
         /\ b.TargetFrom - b.From = Min(mkArgs.radius, b.TargetFrom)
         /\ b.To - b.TargetTo = Min(mkArgs.radius, n - 1 - b.TargetTo)

\* A first batch without left context and with right context, and a last
\* batch with left context and without right context.
C38_Witness ==
  /\ MakeSucceeded
  /\ mkArgs.radius >= 1
  /\ Len(run.batches) >= 2
  /\ run.batches[1].From = run.batches[1].TargetFrom
  /\ run.batches[1].To = run.batches[1].TargetTo + mkArgs.radius
  /\ LET b == run.batches[Len(run.batches)]
     IN b.From = b.TargetFrom - mkArgs.radius /\ b.To = b.TargetTo

\* ---------------------------------------------------------------- bucket levels
\* The level of bucket b is between empty and its capacity (levels are kept
\* multiplied by WindowTicks).
LevelInRange(b) == enabled(b) => (0 <= b.level /\ b.level <= b.cap * WindowTicks)

\* C39: after any sequence of NewGate, Wait, Try and Snapshot calls, with clock
\* readings in any order, the level of every enabled bucket is within
\* [0, capacity].
C39_LevelWithinCapacity ==
  \A e \in {twin.a, twin.b} : LevelInRange(e.req) /\ LevelInRange(e.tok)

\* After refills up to the latest reading, the token bucket of a gate is drained
\* to 0 while its request bucket is partly full; the other gate's token bucket,
\* refilled at an earlier reading, is at its capacity.
C39_Witness ==
  /\ enabled(twin.a.req) /\ enabled(twin.a.tok)
  /\ twin.a.tok.level = 0
  /\ twin.a.tok.last = WindowTicks
  /\ 0 < twin.a.req.level /\ twin.a.req.level < twin.a.req.cap * WindowTicks
  /\ twin.b.tok.level = twin.b.tok.cap * WindowTicks
  /\ twin.b.tok.last > 0

====
